---- MODULE Spec2Model ----
(***************************************************************************)
(* A model of the trellone-api authentication pipeline (register, login,   *)
(* logout, refresh-token rotation, verify-email) and of the board          *)
(* mutation "move card to a different column", with the express            *)
(* middleware chain in front of the controllers.                           *)
(*                                                                         *)
(* Every HTTP request occupies one slot and advances one awaited step at   *)
(* a time (validator, controller, service database calls), so that the     *)
(* steps of two requests interleave as they do on the node event loop.     *)
(***************************************************************************)
EXTENDS Integers, Sequences, FiniteSets, TLC

(***************************************************************************)
(* Bounds of the model.                                                    *)
(***************************************************************************)
NumSlots == 2
MaxTime == 1
MaxUsers == 1
MaxRequests == 5

Slots == 1..NumSlots

(***************************************************************************)
(* HTTP status codes and messages.                                         *)
(***************************************************************************)
OK == 200
UNAUTHORIZED == 401
FORBIDDEN == 403
NOT_FOUND == 404
UNPROCESSABLE_ENTITY == 422

VALIDATION_ERROR == "Validation error"
EMAIL_IS_INVALID == "Email is invalid"
EMAIL_ALREADY_EXISTS == "Email already exists"
PASSWORD_IS_REQUIRED == "Password is required"
PASSWORD_LENGTH_MUST_BE_BETWEEN_6_AND_50 == "Password length must be between 6 and 50 characters"
PASSWORD_MUST_BE_STRONG ==
  "Password must be 6-50 characters long and contain at least 1 lowercase letter, 1 uppercase letter, 1 number, and 1 special character"
CONFIRM_PASSWORD_IS_REQUIRED == "Confirm password is required"
CONFIRM_PASSWORD_LENGTH_MUST_BE_BETWEEN_6_AND_50 == "Confirm password length must be between 6 and 50 characters"
CONFIRM_PASSWORD_MUST_BE_STRONG ==
  "Confirm password must be 6-50 characters long and contain at least 1 lowercase letter, 1 uppercase letter, 1 number, and 1 special character"
CONFIRM_PASSWORD_MUST_BE_THE_SAME_AS_PASSWORD == "Confirm password must be the same as password"
REGISTER_SUCCESS == "Register successfully, please check your email to verify your account"
EMAIL_OR_PASSWORD_IS_INCORRECT == "Email or password is incorrect"
LOGIN_SUCCESS == "Login successfully"
ACCESS_TOKEN_IS_REQUIRED == "Access token is required"
REFRESH_TOKEN_IS_REQUIRED == "Refresh token is required"
USED_REFRESH_TOKEN_OR_NOT_EXIST == "Used refresh token or not exist"
LOGOUT_SUCCESS == "Logout successfully"
REFRESH_TOKEN_SUCCESS == "Refresh token successfully"

(***************************************************************************)
(* Request inputs: e-mail addresses and passwords.                         *)
(***************************************************************************)
ValidEmails == {"alice@example.com"}
MalformedEmail == "not-an-email"
PaddedEmail == " alice@example.com"
Emails == ValidEmails \cup {MalformedEmail, PaddedEmail}

isEmail(value) == value \in ValidEmails

\* The trim sanitizer: the value without leading and trailing whitespace.
trim(value) == IF value = PaddedEmail THEN "alice@example.com" ELSE value

\* The bodies of POST /auth/register and POST /auth/login that clients send.
RegisterBodies ==
  { <<"alice@example.com", "Secret123!", "Secret123!">>,
    <<"alice@example.com", "Secret123!", "Other456?">>,
    <<"alice@example.com", "secret", "secret">>,
    <<MalformedEmail, "Secret123!", "Secret123!">>,
    <<PaddedEmail, "Secret123!", "Secret123!">> }

LoginBodies ==
  { <<"alice@example.com", "Secret123!">>,
    <<"alice@example.com", "Other456?">>,
    <<"alice@example.com", "secret">>,
    <<MalformedEmail, "Secret123!">>,
    <<PaddedEmail, "Secret123!">> }

\* A password is described by what the validators of passwordSchema look at.
Passwords ==
  { [text |-> "Secret123!", len |-> 10, strong |-> TRUE],
    [text |-> "Other456?",  len |-> 9,  strong |-> TRUE],
    [text |-> "secret",     len |-> 6,  strong |-> FALSE] }

MinPasswordLength == 6
MaxPasswordLength == 50

\* First failing validator of passwordSchema ("" when the value passes).
passwordSchema(value) ==
  IF value.len = 0 THEN PASSWORD_IS_REQUIRED
  ELSE IF value.len < MinPasswordLength \/ value.len > MaxPasswordLength
       THEN PASSWORD_LENGTH_MUST_BE_BETWEEN_6_AND_50
  ELSE IF ~value.strong THEN PASSWORD_MUST_BE_STRONG
  ELSE ""

\* First failing validator of confirmPasswordSchema ("" when the value passes).
confirmPasswordSchema(value, password) ==
  IF value.len = 0 THEN CONFIRM_PASSWORD_IS_REQUIRED
  ELSE IF value.len < MinPasswordLength \/ value.len > MaxPasswordLength
       THEN CONFIRM_PASSWORD_LENGTH_MUST_BE_BETWEEN_6_AND_50
  ELSE IF ~value.strong THEN CONFIRM_PASSWORD_MUST_BE_STRONG
  ELSE IF value # password THEN CONFIRM_PASSWORD_MUST_BE_THE_SAME_AS_PASSWORD
  ELSE ""

PasswordOf(text) == CHOOSE p \in Passwords : p.text = text

\* sha256 of the password and the password secret: a digest, never the text.
hashPassword(password) == <<"sha256", password.text>>

(***************************************************************************)
(* Token codec.  A JSON web token is determined by its claims and by the   *)
(* secret that signed it; jwt.sign stamps iat with the clock in seconds.   *)
(***************************************************************************)
\* One secret configured for two kinds.
sharedSecret == "JWT_SECRET_ACCESS_TOKEN"

jwtSecretAccessToken == "JWT_SECRET_ACCESS_TOKEN"
jwtSecretRefreshToken == "JWT_SECRET_REFRESH_TOKEN"
jwtSecretEmailVerifyToken == "JWT_SECRET_EMAIL_VERIFY_TOKEN"
jwtSecretForgotPasswordToken == "JWT_SECRET_FORGOT_PASSWORD_TOKEN"

accessTokenExpiresIn == 1
refreshTokenExpiresIn == 3
emailVerifyTokenExpiresIn == 3
forgotPasswordTokenExpiresIn == 3

AccessToken == "AccessToken"
RefreshToken == "RefreshToken"
EmailVerifyToken == "EmailVerifyToken"
ForgotPasswordToken == "ForgotPasswordToken"

Unverified == "Unverified"
Verified == "Verified"

\* The empty string / absent cookie, and a string that is not a JWT.
NoToken ==
  [user_id |-> 0, token_type |-> "", verify |-> "", iat |-> 0, exp |-> 0, claims |-> "",
   secret |-> ""]
MalformedToken == [NoToken EXCEPT !.secret = "malformed"]

\* The decoded claims of a token.
TokenPayload(token) ==
  [user_id |-> token.user_id, token_type |-> token.token_type, verify |-> token.verify,
   iat |-> token.iat, exp |-> token.exp]

NoPayload == TokenPayload(NoToken)

\* A signer that loses the verify claim of the payload.
signTokenLosingVerify(payload, privateKey, expiresIn, clock) ==
  [user_id |-> payload.user_id, token_type |-> payload.token_type, verify |-> "",
   iat |-> clock, exp |-> clock + expiresIn, claims |-> "iat,exp", secret |-> privateKey]

\* jwt.sign(payload, privateKey, {expiresIn}) at clock time clock.  The signer
\* stamps iat, then exp from expiresIn; a payload that carries exp keeps it,
\* and then exp comes before iat in the serialized claims.
signToken(payload, privateKey, expiresIn, clock) ==
  [user_id |-> payload.user_id, token_type |-> payload.token_type, verify |-> payload.verify,
   iat |-> clock,
   exp |-> IF "exp" \in DOMAIN payload THEN payload.exp ELSE clock + expiresIn,
   claims |-> IF "exp" \in DOMAIN payload THEN "exp,iat" ELSE "iat,exp",
   secret |-> privateKey]

\* jwt.verify(token, secretOrPublicKey) at clock time clock.
verifyToken(token, secretOrPublicKey, clock) ==
  IF token = NoToken THEN [ok |-> FALSE, error |-> "jwt must be provided", decoded |-> NoPayload]
  ELSE IF token.secret = "malformed" THEN [ok |-> FALSE, error |-> "jwt malformed", decoded |-> NoPayload]
  ELSE IF token.secret # secretOrPublicKey THEN [ok |-> FALSE, error |-> "invalid signature", decoded |-> NoPayload]
  ELSE IF clock >= token.exp THEN [ok |-> FALSE, error |-> "jwt expired", decoded |-> NoPayload]
  ELSE [ok |-> TRUE, error |-> "", decoded |-> TokenPayload(token)]

\* lodash capitalize on the messages of JsonWebTokenError.
capitalize(message) ==
  CASE message = "jwt must be provided" -> "Jwt must be provided"
    [] message = "jwt malformed" -> "Jwt malformed"
    [] message = "invalid signature" -> "Invalid signature"
    [] message = "jwt expired" -> "Jwt expired"
    [] OTHER -> message

signAccessToken(user_id, verify, clock) ==
  signToken([user_id |-> user_id, token_type |-> AccessToken, verify |-> verify],
            jwtSecretAccessToken, accessTokenExpiresIn, clock)

signRefreshToken(user_id, verify, clock) ==
  signToken([user_id |-> user_id, token_type |-> RefreshToken, verify |-> verify],
            jwtSecretRefreshToken, refreshTokenExpiresIn, clock)

\* The refresh token of a rotation keeps the expiry of the token it replaces.
signRefreshTokenWithExp(user_id, verify, exp, clock) ==
  signToken([user_id |-> user_id, token_type |-> RefreshToken, verify |-> verify, exp |-> exp],
            jwtSecretRefreshToken, refreshTokenExpiresIn, clock)

signEmailVerifyToken(user_id, verify, clock) ==
  signToken([user_id |-> user_id, token_type |-> EmailVerifyToken, verify |-> verify],
            jwtSecretEmailVerifyToken, emailVerifyTokenExpiresIn, clock)

signForgotPasswordToken(user_id, verify, clock) ==
  signToken([user_id |-> user_id, token_type |-> ForgotPasswordToken, verify |-> verify],
            jwtSecretForgotPasswordToken, forgotPasswordTokenExpiresIn, clock)

signAccessAndRefreshToken(user_id, verify, clock) ==
  [access_token |-> signAccessToken(user_id, verify, clock),
   refresh_token |-> signRefreshToken(user_id, verify, clock)]

NoTokens == [access_token |-> NoToken, refresh_token |-> NoToken]

(***************************************************************************)
(* The validate wrapper around a checkSchema chain.  errs is the sequence  *)
(* of the failed fields in iteration order, each with the first error of   *)
(* the field: status 0 for a plain Error, the status of an ErrorWithStatus *)
(* otherwise.                                                              *)
(***************************************************************************)
FieldError(field, status, msg) == [field |-> field, status |-> status, msg |-> msg]

\* Keeps the elements of a sequence that are failures (msg # "").
RECURSIVE Failed(_)
Failed(errs) ==
  IF errs = <<>> THEN <<>>
  ELSE IF Head(errs).msg = "" THEN Failed(Tail(errs))
  ELSE <<Head(errs)>> \o Failed(Tail(errs))

NextOutcome == [next |-> TRUE, status |-> 0, message |-> "", errors |-> <<>>]

\* A wrapper that calls next() whatever the validation found.
validateAlwaysNext(fields) == NextOutcome

\* A wrapper that forwards the last field error with a status of its own.
validateForwardingLast(fields) ==
  LET errs == Failed(fields)
      forwarded == {i \in 1..Len(errs) : errs[i].status # 0 /\ errs[i].status # UNPROCESSABLE_ENTITY}
  IN  IF errs = <<>> THEN NextOutcome
      ELSE IF forwarded # {}
           THEN LET i == CHOOSE j \in forwarded : \A k \in forwarded : j >= k
                IN  [next |-> FALSE, status |-> errs[i].status, message |-> errs[i].msg, errors |-> <<>>]
      ELSE [next |-> FALSE, status |-> UNPROCESSABLE_ENTITY, message |-> VALIDATION_ERROR, errors |-> errs]

validate(fields) ==
  LET errs == Failed(fields)
      forwarded == {i \in 1..Len(errs) : errs[i].status # 0 /\ errs[i].status # UNPROCESSABLE_ENTITY}
  IN  IF errs = <<>> THEN NextOutcome
      ELSE IF forwarded # {}
           THEN LET i == CHOOSE j \in forwarded : \A k \in forwarded : j <= k
                IN  [next |-> FALSE, status |-> errs[i].status, message |-> errs[i].msg, errors |-> <<>>]
      ELSE [next |-> FALSE, status |-> UNPROCESSABLE_ENTITY, message |-> VALIDATION_ERROR, errors |-> errs]

\* The message an EntityError response carries for a field ("" when none).
ErrorOf(errors, field) ==
  IF \E i \in 1..Len(errors) : errors[i].field = field
  THEN errors[CHOOSE i \in 1..Len(errors) : errors[i].field = field].msg
  ELSE ""

(***************************************************************************)
(* State.                                                                  *)
(***************************************************************************)
VARIABLES
  now,            \* the server clock, in seconds
  users,          \* the users collection
  refreshTokens,  \* the refresh_tokens collection, keyed by token string
  requests,       \* the authentication requests in flight, one per slot
  issued,         \* every token a response or an e-mail has handed to a client
  rotated,        \* refresh tokens some completed refresh has consumed
  revoked,        \* refresh tokens some completed logout has revoked
  started,        \* number of requests started so far
  columns,        \* the columns collection: column id -> card_order_ids
  cards,          \* the cards collection: card id -> column_id
  moves,          \* the PUT /boards/supports/moving-card requests in flight
  signing,        \* the last call of signToken: its arguments and the token
  verification,   \* the last call of verifyToken: its arguments and the outcome
  validation,     \* the last run of validate: the field errors and what it did
  err,            \* the error handed to next(err)
  res             \* what defaultErrorHandler answered

authVars == <<now, users, refreshTokens, requests, issued, rotated, revoked, started>>
boardVars == <<columns, cards, moves>>
utilVars == <<signing, verification, validation, err, res>>
vars == <<now, users, refreshTokens, requests, issued, rotated, revoked, started,
          columns, cards, moves, signing, verification, validation, err, res>>

NoUser == [id |-> 0, email |-> "", password |-> <<>>, verify |-> "",
           email_verify_token |-> NoToken, forgot_password_token |-> NoToken]

NoPassword == [text |-> "", len |-> 0, strong |-> FALSE]

\* A request as express sees it: what the client sent, what the middlewares
\* attached (user, decoded_*), and what was answered.
IdleRequest ==
  [op |-> "idle", pc |-> "done",
   email |-> "", password |-> NoPassword, confirm_password |-> NoPassword,
   refresh_token |-> NoToken, email_verify_token |-> NoToken,
   access_token |-> NoToken, forgot_password_token |-> NoToken,
   user |-> NoUser, decoded_refresh_token |-> NoPayload, decoded_email_verify_token |-> NoPayload,
   decoded_authorization |-> NoPayload, decoded_forgot_password_token |-> NoPayload,
   new_tokens |-> NoTokens,
   status |-> 0, message |-> "", errors |-> <<>>, result |-> NoTokens,
   afterRotation |-> FALSE, afterLogout |-> FALSE, raced |-> FALSE, absent |-> FALSE,
   storedVerify |-> ""]

\* res.status(status).json(...) ends the request.
Respond(req, status, message, errors, result) ==
  [req EXCEPT !.pc = "done", !.status = status, !.message = message,
              !.errors = errors, !.result = result]

\* next(err): the default error handler answers with the error.
Reject(req, outcome) == Respond(req, outcome.status, outcome.message, outcome.errors, NoTokens)

\* A new request takes the first free slot.
CanStart(s) ==
  /\ requests[s].pc = "done"
  /\ \A t \in Slots : t < s => requests[t].pc # "done"
  /\ started < MaxRequests

\* What a client can put in a cookie or a body: nothing, garbage, or a token it
\* has received.
Presentable == issued \cup {NoToken, MalformedToken}

(***************************************************************************)
(* users collection queries.                                               *)
(***************************************************************************)
\* authService.checkEmailExist(email)
checkEmailExist(email) == \E u \in users : u.email = email

\* databaseService.users.findOne(filter): the first document in natural order.
FirstOf(matches) ==
  IF matches = {} THEN NoUser
  ELSE CHOOSE u \in matches : \A v \in matches : u.id <= v.id

findUserByCredentials(email, password) ==
  FirstOf({u \in users : u.email = email /\ u.password = hashPassword(password)})

findUserById(user_id) == FirstOf({u \in users : u.id = user_id})

(***************************************************************************)
(* POST /auth/register: registerValidator, registerController.             *)
(***************************************************************************)
StartRegister(s, email, password, confirm_password) ==
  /\ CanStart(s)
  /\ (isEmail(email) /\ ~checkEmailExist(trim(email))) =>
       Cardinality(users)
         + Cardinality({t \in Slots : requests[t].op = "register" /\ requests[t].pc # "done"})
         < MaxUsers
  /\ requests' = [requests EXCEPT ![s] =
       [IdleRequest EXCEPT !.op = "register", !.pc = "validator", !.email = email,
                           !.password = password, !.confirm_password = confirm_password]]
  /\ started' = started + 1
  /\ UNCHANGED <<now, users, refreshTokens, issued, rotated, revoked, boardVars, utilVars>>

\* A registration arrives whatever the number of users.
StartRegisterAny(s, email, password, confirm_password) ==
  /\ CanStart(s)
  /\ requests' = [requests EXCEPT ![s] =
       [IdleRequest EXCEPT !.op = "register", !.pc = "validator", !.email = email,
                           !.password = password, !.confirm_password = confirm_password]]
  /\ started' = started + 1
  /\ UNCHANGED <<now, users, refreshTokens, issued, rotated, revoked, boardVars, utilVars>>

\* A registerValidator whose email field forgets the lookup of the address.
registerEmailErrorNoLookup(email) == IF ~isEmail(email) THEN EMAIL_IS_INVALID ELSE ""

\* The first error of the email field of registerValidator.
registerEmailError(email) ==
  IF ~isEmail(email) THEN EMAIL_IS_INVALID
  ELSE IF checkEmailExist(trim(email)) THEN EMAIL_ALREADY_EXISTS
  ELSE ""

registerValidator(req) ==
  validate(<< FieldError("email", 0, registerEmailError(req.email)),
              FieldError("password", 0, passwordSchema(req.password)),
              FieldError("confirm_password", 0,
                         confirmPasswordSchema(req.confirm_password, req.password)) >>)

RegisterValidator(s) ==
  /\ requests[s].op = "register" /\ requests[s].pc = "validator"
  /\ LET outcome == registerValidator(requests[s])
     IN  requests' = [requests EXCEPT ![s] =
           IF outcome.next THEN [@ EXCEPT !.pc = "controller"] ELSE Reject(@, outcome)]
  /\ UNCHANGED <<now, users, refreshTokens, issued, rotated, revoked, started, boardVars, utilVars>>

\* authService.register: a new Unverified user with a hashed password and an
\* e-mail verify token, which is mailed to the address.
register(user_id, email, password, clock) ==
  [id |-> user_id, email |-> email, password |-> hashPassword(password),
   verify |-> Unverified,
   email_verify_token |-> signEmailVerifyToken(user_id, Unverified, clock),
   forgot_password_token |-> NoToken]

RegisterController(s) ==
  /\ requests[s].op = "register" /\ requests[s].pc = "controller"
  /\ LET user == register(Cardinality(users) + 1, trim(requests[s].email), requests[s].password, now)
     IN  /\ users' = users \cup {user}
         /\ issued' = issued \cup {user.email_verify_token}
  /\ requests' = [requests EXCEPT ![s] = Respond(@, OK, REGISTER_SUCCESS, <<>>, NoTokens)]
  /\ UNCHANGED <<now, refreshTokens, rotated, revoked, started, boardVars, utilVars>>

(***************************************************************************)
(* POST /auth/login: loginValidator, loginController.                      *)
(***************************************************************************)
StartLogin(s, email, password) ==
  /\ CanStart(s)
  /\ requests' = [requests EXCEPT ![s] =
       [IdleRequest EXCEPT !.op = "login", !.pc = "validator", !.email = email,
                           !.password = password]]
  /\ started' = started + 1
  /\ UNCHANGED <<now, users, refreshTokens, issued, rotated, revoked, boardVars, utilVars>>

\* A loginValidator whose email field forgets the lookup of the user.
loginEmailErrorNoLookup(email, password) == IF ~isEmail(email) THEN EMAIL_IS_INVALID ELSE ""

\* The first error of the email field of loginValidator.
loginEmailError(email, password) ==
  IF ~isEmail(email) THEN EMAIL_IS_INVALID
  ELSE IF findUserByCredentials(trim(email), password) = NoUser
  THEN EMAIL_OR_PASSWORD_IS_INCORRECT
  ELSE ""

loginValidator(req) ==
  validate(<< FieldError("email", 0, loginEmailError(req.email, req.password)),
              FieldError("password", 0, passwordSchema(req.password)) >>)

LoginValidator(s) ==
  /\ requests[s].op = "login" /\ requests[s].pc = "validator"
  /\ LET outcome == loginValidator(requests[s])
         user == findUserByCredentials(trim(requests[s].email), requests[s].password)
     IN  requests' = [requests EXCEPT ![s] =
           IF outcome.next THEN [@ EXCEPT !.pc = "controller", !.user = user]
           ELSE IF user # NoUser THEN Reject([@ EXCEPT !.user = user], outcome)
           ELSE Reject(@, outcome)]
  /\ UNCHANGED <<now, users, refreshTokens, issued, rotated, revoked, started, boardVars, utilVars>>

\* An insert that replaces every record of the collection.
insertOnlyRefreshToken(store, refresh_token) == {refresh_token}

\* databaseService.refreshTokens.insertOne(new RefreshToken({ token, ... })).
insertRefreshToken(store, refresh_token) == store \cup {refresh_token}

\* authService.login: signs the pair and stores the refresh token.
login(user_id, verify, clock) == signAccessAndRefreshToken(user_id, verify, clock)

LoginController(s) ==
  /\ requests[s].op = "login" /\ requests[s].pc = "controller"
  /\ LET result == login(requests[s].user.id, requests[s].user.verify, now)
     IN  /\ refreshTokens' = insertRefreshToken(refreshTokens, result.refresh_token)
         /\ issued' = issued \cup {result.access_token, result.refresh_token}
         /\ requests' = [requests EXCEPT ![s] = Respond(@, OK, LOGIN_SUCCESS, <<>>, result)]
  /\ UNCHANGED <<now, users, rotated, revoked, started, boardVars, utilVars>>

(***************************************************************************)
(* POST /auth/logout: logoutController.                                    *)
(***************************************************************************)
StartLogout(s, refresh_token) ==
  /\ CanStart(s)
  /\ requests' = [requests EXCEPT ![s] =
       [IdleRequest EXCEPT !.op = "logout", !.pc = "controller", !.refresh_token = refresh_token]]
  /\ started' = started + 1
  /\ UNCHANGED <<now, users, refreshTokens, issued, rotated, revoked, boardVars, utilVars>>

\* A logout that deletes with an empty filter.
logoutEveryone(store, refresh_token) == {}

\* authService.logout: deleteOne({ token: refresh_token }).
logout(store, refresh_token) == store \ {refresh_token}

\* The token logoutController hands to the service: req.cookies.refresh_token.
logoutCookie(req) == req.refresh_token

LogoutController(s) ==
  /\ requests[s].op = "logout" /\ requests[s].pc = "controller"
  /\ refreshTokens' = logout(refreshTokens, logoutCookie(requests[s]))
  /\ revoked' = revoked \cup ({requests[s].refresh_token} \cap refreshTokens)
  /\ requests' = [requests EXCEPT ![s] =
       Respond([@ EXCEPT !.absent = requests[s].refresh_token \notin refreshTokens],
               OK, LOGOUT_SUCCESS, <<>>, NoTokens)]
  /\ UNCHANGED <<now, users, issued, rotated, started, boardVars, utilVars>>

(***************************************************************************)
(* POST /auth/refresh-token: refreshTokenValidator, refreshTokenController.*)
(***************************************************************************)
StartRefreshToken(s, refresh_token) ==
  /\ CanStart(s)
  /\ requests' = [requests EXCEPT ![s] =
       [IdleRequest EXCEPT !.op = "refresh-token", !.pc = "validator",
                           !.refresh_token = refresh_token]]
  /\ started' = started + 1
  /\ UNCHANGED <<now, users, refreshTokens, issued, rotated, revoked, boardVars, utilVars>>

\* A lookup that finds every token.
findRefreshTokenAlways(value) == TRUE

\* databaseService.refreshTokens.findOne({ token: value }) !== null
findRefreshToken(value) == value \in refreshTokens

\* A check that awaits the store lookup before the verification.
refreshTokenCheckLookupFirst(value, clock) ==
  LET verified == verifyToken(value, jwtSecretRefreshToken, clock)
  IN  IF value = NoToken
      THEN [status |-> UNAUTHORIZED, msg |-> REFRESH_TOKEN_IS_REQUIRED, decoded |-> NoPayload]
      ELSE IF value \notin refreshTokens
      THEN [status |-> UNAUTHORIZED, msg |-> USED_REFRESH_TOKEN_OR_NOT_EXIST, decoded |-> NoPayload]
      ELSE IF ~verified.ok
      THEN [status |-> UNAUTHORIZED, msg |-> capitalize(verified.error), decoded |-> NoPayload]
      ELSE [status |-> 0, msg |-> "", decoded |-> verified.decoded]

\* The error of the refresh_token cookie field: [status, msg, decoded].
refreshTokenCheck(value, clock) ==
  LET verified == verifyToken(value, jwtSecretRefreshToken, clock)
  IN  IF value = NoToken
      THEN [status |-> UNAUTHORIZED, msg |-> REFRESH_TOKEN_IS_REQUIRED, decoded |-> NoPayload]
      ELSE IF ~verified.ok
      THEN [status |-> UNAUTHORIZED, msg |-> capitalize(verified.error), decoded |-> NoPayload]
      ELSE IF ~findRefreshToken(value)
      THEN [status |-> UNAUTHORIZED, msg |-> USED_REFRESH_TOKEN_OR_NOT_EXIST, decoded |-> NoPayload]
      ELSE [status |-> 0, msg |-> "", decoded |-> verified.decoded]

refreshTokenValidator(req, clock) ==
  LET check == refreshTokenCheck(req.refresh_token, clock)
  IN  validate(<< FieldError("refresh_token", check.status, check.msg) >>)

RefreshTokenValidator(s) ==
  /\ requests[s].op = "refresh-token" /\ requests[s].pc = "validator"
  /\ LET outcome == refreshTokenValidator(requests[s], now)
         seen == [requests[s] EXCEPT
                    !.afterRotation = requests[s].refresh_token \in rotated,
                    !.afterLogout = requests[s].refresh_token \in revoked,
                    !.storedVerify = findUserById(requests[s].refresh_token.user_id).verify,
                    !.raced = \E t \in Slots \ {s} :
                                 /\ requests[t].op = "refresh-token"
                                 /\ requests[t].pc \in {"controller", "insert"}
                                 /\ requests[t].refresh_token = requests[s].refresh_token]
     IN  requests' = [requests EXCEPT ![s] =
           IF outcome.next
           THEN [seen EXCEPT !.pc = "controller",
                             !.decoded_refresh_token =
                                refreshTokenCheck(requests[s].refresh_token, now).decoded]
           ELSE Reject(seen, outcome)]
  /\ UNCHANGED <<now, users, refreshTokens, issued, rotated, revoked, started, boardVars, utilVars>>

\* A rotation that signs the new pair with the verify status of the stored
\* user.
refreshTokenSignStoredVerify(user_id, verify, exp, clock) ==
  [access_token |-> signAccessToken(user_id, findUserById(user_id).verify, clock),
   refresh_token |-> signRefreshTokenWithExp(user_id, findUserById(user_id).verify, exp, clock)]

\* authService.refreshToken, first half: sign the new pair and delete the
\* presented token.
refreshTokenSign(user_id, verify, exp, clock) ==
  [access_token |-> signAccessToken(user_id, verify, clock),
   refresh_token |-> signRefreshTokenWithExp(user_id, verify, exp, clock)]

RefreshTokenController(s) ==
  /\ requests[s].op = "refresh-token" /\ requests[s].pc = "controller"
  /\ LET decoded == requests[s].decoded_refresh_token
     IN  requests' = [requests EXCEPT ![s] =
           [@ EXCEPT !.pc = "insert",
                     !.new_tokens = refreshTokenSign(decoded.user_id, decoded.verify, decoded.exp, now)]]
  /\ refreshTokens' = refreshTokens \ {requests[s].refresh_token}
  /\ UNCHANGED <<now, users, issued, rotated, revoked, started, boardVars, utilVars>>

\* authService.refreshToken, second half: insert the new refresh token; the
\* controller sets the cookies and answers.
RefreshTokenInsert(s) ==
  /\ requests[s].op = "refresh-token" /\ requests[s].pc = "insert"
  /\ refreshTokens' = insertRefreshToken(refreshTokens, requests[s].new_tokens.refresh_token)
  /\ issued' = issued \cup {requests[s].new_tokens.access_token, requests[s].new_tokens.refresh_token}
  /\ rotated' = rotated \cup {requests[s].refresh_token}
  /\ requests' = [requests EXCEPT ![s] =
       Respond(@, OK, REFRESH_TOKEN_SUCCESS, <<>>, requests[s].new_tokens)]
  /\ UNCHANGED <<now, users, revoked, started, boardVars, utilVars>>

\* authService.refreshToken fails between its two writes (the process dies
\* or insertOne throws): the presented token is deleted, the new one is not
\* stored, and the client gets no token.
InterruptRotation(s) ==
  /\ requests[s].op = "refresh-token" /\ requests[s].pc = "insert"
  /\ requests' = [requests EXCEPT ![s] = [@ EXCEPT !.pc = "interrupted"]]
  /\ UNCHANGED <<now, users, refreshTokens, issued, rotated, revoked, started, boardVars, utilVars>>

(***************************************************************************)
(* POST /auth/verify-email: emailVerifyTokenValidator, verifyEmailController*)
(***************************************************************************)
EMAIL_VERIFY_TOKEN_IS_REQUIRED == "Email verify token is required"
USER_NOT_FOUND == "User not found"
INVALID_EMAIL_VERIFY_TOKEN == "Invalid email verify token"
EMAIL_ALREADY_VERIFIED_BEFORE == "Email already verified before"
EMAIL_VERIFY_SUCCESS == "Email verify successfully"

StartVerifyEmail(s, email_verify_token) ==
  /\ CanStart(s)
  /\ requests' = [requests EXCEPT ![s] =
       [IdleRequest EXCEPT !.op = "verify-email", !.pc = "validator",
                           !.email_verify_token = email_verify_token]]
  /\ started' = started + 1
  /\ UNCHANGED <<now, users, refreshTokens, issued, rotated, revoked, boardVars, utilVars>>

\* An email_verify_token check that forgets the comparison with the stored
\* token.
emailVerifyTokenCheckNoCompare(value, clock) ==
  LET verified == verifyToken(value, jwtSecretEmailVerifyToken, clock)
  IN  IF value = NoToken
      THEN [status |-> UNAUTHORIZED, msg |-> EMAIL_VERIFY_TOKEN_IS_REQUIRED, decoded |-> NoPayload]
      ELSE IF ~verified.ok
      THEN [status |-> UNAUTHORIZED, msg |-> capitalize(verified.error), decoded |-> NoPayload]
      ELSE IF findUserById(verified.decoded.user_id) = NoUser
      THEN [status |-> UNAUTHORIZED, msg |-> USER_NOT_FOUND, decoded |-> NoPayload]
      ELSE [status |-> 0, msg |-> "", decoded |-> verified.decoded]

\* The error of the email_verify_token body field: [status, msg, decoded].
emailVerifyTokenCheck(value, clock) ==
  LET verified == verifyToken(value, jwtSecretEmailVerifyToken, clock)
      user == findUserById(verified.decoded.user_id)
  IN  IF value = NoToken
      THEN [status |-> UNAUTHORIZED, msg |-> EMAIL_VERIFY_TOKEN_IS_REQUIRED, decoded |-> NoPayload]
      ELSE IF ~verified.ok
      THEN [status |-> UNAUTHORIZED, msg |-> capitalize(verified.error), decoded |-> NoPayload]
      ELSE IF user = NoUser
      THEN [status |-> UNAUTHORIZED, msg |-> USER_NOT_FOUND, decoded |-> NoPayload]
      ELSE IF user.email_verify_token # value
      THEN [status |-> UNAUTHORIZED, msg |-> INVALID_EMAIL_VERIFY_TOKEN, decoded |-> NoPayload]
      ELSE [status |-> 0, msg |-> "", decoded |-> verified.decoded]

emailVerifyTokenValidator(req, clock) ==
  LET check == emailVerifyTokenCheck(req.email_verify_token, clock)
  IN  validate(<< FieldError("email_verify_token", check.status, check.msg) >>)

EmailVerifyTokenValidator(s) ==
  /\ requests[s].op = "verify-email" /\ requests[s].pc = "validator"
  /\ LET outcome == emailVerifyTokenValidator(requests[s], now)
     IN  requests' = [requests EXCEPT ![s] =
           IF outcome.next
           THEN [@ EXCEPT !.pc = "controller",
                          !.decoded_email_verify_token =
                             emailVerifyTokenCheck(requests[s].email_verify_token, now).decoded]
           ELSE Reject(@, outcome)]
  /\ UNCHANGED <<now, users, refreshTokens, issued, rotated, revoked, started, boardVars, utilVars>>

\* verifyEmailController up to the call of the service.
VerifyEmailController(s) ==
  /\ requests[s].op = "verify-email" /\ requests[s].pc = "controller"
  /\ LET user == findUserById(requests[s].decoded_email_verify_token.user_id)
     IN  requests' = [requests EXCEPT ![s] =
           IF user = NoUser THEN Respond(@, NOT_FOUND, USER_NOT_FOUND, <<>>, NoTokens)
           ELSE IF user.email_verify_token = NoToken
           THEN Respond(@, OK, EMAIL_ALREADY_VERIFIED_BEFORE, <<>>, NoTokens)
           ELSE [@ EXCEPT !.pc = "service"]]
  /\ UNCHANGED <<now, users, refreshTokens, issued, rotated, revoked, started, boardVars, utilVars>>

\* The update with the token left in place.
verifyEmailKeepsToken(user) == [user EXCEPT !.verify = Verified]

\* authService.verifyEmail: the update of the user document.
verifyEmail(user) == [user EXCEPT !.email_verify_token = NoToken, !.verify = Verified]

VerifyEmailService(s) ==
  /\ requests[s].op = "verify-email" /\ requests[s].pc = "service"
  /\ LET user_id == requests[s].decoded_email_verify_token.user_id
     IN  users' = {IF u.id = user_id THEN verifyEmail(u) ELSE u : u \in users}
  /\ requests' = [requests EXCEPT ![s] = Respond(@, OK, EMAIL_VERIFY_SUCCESS, <<>>, NoTokens)]
  /\ UNCHANGED <<now, refreshTokens, issued, rotated, revoked, started, boardVars, utilVars>>

(***************************************************************************)
(* The clock.                                                              *)
(***************************************************************************)
Tick ==
  /\ now < MaxTime
  /\ now' = now + 1
  /\ UNCHANGED <<users, refreshTokens, requests, issued, rotated, revoked, started, boardVars, utilVars>>

(***************************************************************************)
(* The board: columns with their card_order_ids, cards with their          *)
(* column_id.                                                              *)
(***************************************************************************)
ColumnIds == {"C1", "C2"}
CardIds == {"K1", "K2", "K3"}
UnknownColumnId == "C9"
UnknownCardId == "K9"

NumMoveSlots == 2
MaxMoves == 2
MoveSlots == 1..NumMoveSlots

USER_NOT_VERIFIED == "User not verified"
CARD_NOT_FOUND == "Card not found"
COLUMN_NOT_FOUND == "Column not found"
MOVE_CARD_TO_DIFFERENT_COLUMN_SUCCESS == "Move card to different column successfully"

Range(seq) == {seq[i] : i \in 1..Len(seq)}

\* The sequence without the occurrences of x.
RECURSIVE Without(_, _)
Without(seq, x) ==
  IF seq = <<>> THEN <<>>
  ELSE IF Head(seq) = x THEN Without(Tail(seq), x)
  ELSE <<Head(seq)>> \o Without(Tail(seq), x)

\* The sequence with x put at position i (1..Len+1).
InsertAt(seq, i, x) == SubSeq(seq, 1, i - 1) \o <<x>> \o SubSeq(seq, i, Len(seq))

\* The body of PUT /boards/supports/moving-card.
MoveBody(card, prev, prev_order, next, next_order) ==
  [current_card_id |-> card, prev_column_id |-> prev, prev_card_order_ids |-> prev_order,
   next_column_id |-> next, next_card_order_ids |-> next_order]

NoBody == MoveBody("", "", <<>>, "", <<>>)

\* What a client that has just read the board sends to drag card k to
\* position i of another column c.
DragBody(k, c, i) ==
  MoveBody(k, cards[k], Without(columns[cards[k]], k), c, InsertAt(columns[c], i, k))

DragBodies ==
  UNION { { DragBody(kc[1], kc[2], i) : i \in 1..(Len(columns[kc[2]]) + 1) } :
            kc \in {x \in CardIds \X ColumnIds : cards[x[1]] # x[2]} }

\* Bodies of a client that does not do its part: an unknown card, an unknown
\* column, orderings that leave the card in the source column, and a move
\* inside one column.
OtherBodies ==
  { MoveBody(UnknownCardId, "C1", <<>>, "C2", <<UnknownCardId>>),
    MoveBody("K1", UnknownColumnId, <<>>, "C2", <<"K1">>),
    MoveBody("K1", "C1", <<"K1", "K2">>, "C2", <<"K3">>),
    MoveBody("K1", "C1", <<"K2", "K1">>, "C1", <<"K2", "K1">>) }

\* The access tokens a client of the board can hold at the board's clock 1.
BoardTokens ==
  { NoToken, MalformedToken,
    signAccessToken(1, Verified, 1), signAccessToken(1, Unverified, 1),
    signAccessToken(1, Verified, 0), signRefreshToken(1, Verified, 1) }

BoardHeaders == { NoToken, signAccessToken(1, Verified, 1) }

\* The requests clients send: every body with good credentials, every
\* combination of credentials with one body.
MoveRequests ==
  { r \in BoardTokens \X BoardHeaders \X (DragBodies \cup OtherBodies) :
      \/ r[1] = signAccessToken(1, Verified, 1) /\ r[2] = NoToken
      \/ r[3] = DragBody("K1", "C2", 1) }

IdleMove ==
  [pc |-> "done", access_token |-> NoToken, authorization |-> NoToken, body |-> NoBody,
   decoded_authorization |-> NoPayload, passed |-> <<>>, writes |-> 0, from |-> "",
   status |-> 0, message |-> "", errors |-> <<>>]

MoveRespond(req, status, message, errors) ==
  [req EXCEPT !.pc = "done", !.status = status, !.message = message, !.errors = errors]

MoveReject(req, outcome) == MoveRespond(req, outcome.status, outcome.message, outcome.errors)

\* next(): the request goes on to the middleware after this one.
MoveNext(req, middleware, pc) == [req EXCEPT !.pc = pc, !.passed = Append(@, middleware)]

StartMove(m) ==
  /\ moves[m].pc = "done"
  /\ \A t \in MoveSlots : t < m => moves[t].pc # "done"
  /\ started < MaxMoves
  /\ \E r \in MoveRequests :
       moves' = [moves EXCEPT ![m] =
         [IdleMove EXCEPT !.pc = "accessTokenValidator", !.access_token = r[1],
                          !.authorization = r[2], !.body = r[3]]]
  /\ started' = started + 1
  /\ UNCHANGED <<now, users, refreshTokens, requests, issued, rotated, revoked, columns, cards,
               utilVars>>

(***************************************************************************)
(* accessTokenValidator and verifyAccessToken.                             *)
(***************************************************************************)
\* verifyAccessToken(access_token, req): [status, msg, decoded].
verifyAccessToken(access_token, clock) ==
  LET verified == verifyToken(access_token, jwtSecretAccessToken, clock)
  IN  IF access_token = NoToken
      THEN [status |-> UNAUTHORIZED, msg |-> ACCESS_TOKEN_IS_REQUIRED, decoded |-> NoPayload]
      ELSE IF ~verified.ok
      THEN [status |-> UNAUTHORIZED, msg |-> capitalize(verified.error), decoded |-> NoPayload]
      ELSE [status |-> 0, msg |-> "", decoded |-> verified.decoded]

\* A validator that prefers the Bearer token of the Authorization header.
accessTokenOfHeaderFirst(req) ==
  IF req.authorization # NoToken THEN req.authorization ELSE req.access_token

\* The token the access_token field of the schema is checked with: the
\* access_token cookie.
accessTokenOf(req) == req.access_token

\* A check that also wants a refresh token of the user in the store.
accessTokenCheckWithSession(req, clock) ==
  LET check == verifyAccessToken(req.access_token, clock)
  IN  IF check.status = 0 /\ ~\E r \in refreshTokens : r.user_id = check.decoded.user_id
      THEN [status |-> UNAUTHORIZED, msg |-> USED_REFRESH_TOKEN_OR_NOT_EXIST, decoded |-> NoPayload]
      ELSE check

accessTokenCheck(req, clock) == verifyAccessToken(accessTokenOf(req), clock)

accessTokenValidator(req, clock) ==
  LET check == accessTokenCheck(req, clock)
  IN  validate(<< FieldError("access_token", check.status, check.msg) >>)

AccessTokenValidator(m) ==
  /\ moves[m].pc = "accessTokenValidator"
  /\ LET outcome == accessTokenValidator(moves[m], now)
     IN  moves' = [moves EXCEPT ![m] =
           IF outcome.next
           THEN [MoveNext(@, "accessTokenValidator", "verifiedUserValidator")
                   EXCEPT !.decoded_authorization = accessTokenCheck(moves[m], now).decoded]
           ELSE MoveReject(@, outcome)]
  /\ UNCHANGED <<authVars, utilVars, columns, cards>>

(***************************************************************************)
(* verifiedUserValidator.                                                  *)
(***************************************************************************)
verifiedUserValidator(req) ==
  IF req.decoded_authorization.verify # Verified
  THEN [next |-> FALSE, status |-> FORBIDDEN, message |-> USER_NOT_VERIFIED, errors |-> <<>>]
  ELSE NextOutcome

VerifiedUserValidator(m) ==
  /\ moves[m].pc = "verifiedUserValidator"
  /\ LET outcome == verifiedUserValidator(moves[m])
     IN  moves' = [moves EXCEPT ![m] =
           IF outcome.next
           THEN MoveNext(@, "verifiedUserValidator", "moveCardToDifferentColumnValidator")
           ELSE MoveReject(@, outcome)]
  /\ UNCHANGED <<authVars, utilVars, columns, cards>>

(***************************************************************************)
(* moveCardToDifferentColumnValidator and filterMiddleware.                *)
(***************************************************************************)
moveCardToDifferentColumnValidator(req) ==
  validate(<< FieldError("current_card_id", 0,
                IF req.body.current_card_id \in CardIds THEN "" ELSE CARD_NOT_FOUND),
              FieldError("prev_column_id", 0,
                IF req.body.prev_column_id \in ColumnIds THEN "" ELSE COLUMN_NOT_FOUND),
              FieldError("next_column_id", 0,
                IF req.body.next_column_id \in ColumnIds THEN "" ELSE COLUMN_NOT_FOUND) >>)

MoveCardToDifferentColumnValidator(m) ==
  /\ moves[m].pc = "moveCardToDifferentColumnValidator"
  /\ LET outcome == moveCardToDifferentColumnValidator(moves[m])
     IN  moves' = [moves EXCEPT ![m] =
           IF outcome.next
           THEN [MoveNext(@, "moveCardToDifferentColumnValidator", "filterMiddleware")
                   EXCEPT !.from = cards[moves[m].body.current_card_id]]
           ELSE MoveReject(@, outcome)]
  /\ UNCHANGED <<authVars, utilVars, columns, cards>>

\* pick(req.body, keys): the five fields of the body are the five keys.
filterMiddleware(body) ==
  MoveBody(body.current_card_id, body.prev_column_id, body.prev_card_order_ids,
           body.next_column_id, body.next_card_order_ids)

FilterMiddleware(m) ==
  /\ moves[m].pc = "filterMiddleware"
  /\ moves' = [moves EXCEPT ![m] =
       [MoveNext(@, "filterMiddleware", "source") EXCEPT !.body = filterMiddleware(moves[m].body)]]
  /\ UNCHANGED <<authVars, utilVars, columns, cards>>

(***************************************************************************)
(* moveCardToDifferentColumnController: the three updates of               *)
(* boardsService.moveCardToDifferentColumn, one document each.             *)
(***************************************************************************)
\* An update that yields to the array already stored.
updateColumnYielding(cols, column_id, card_order_ids) == cols

\* An update that is not confined to one document.
updateColumnEverywhere(cols, column_id, card_order_ids) ==
  [c \in DOMAIN cols |-> card_order_ids]

\* columns.findOneAndUpdate({_id}, {$set: {card_order_ids}})
updateColumn(cols, column_id, card_order_ids) ==
  [cols EXCEPT ![column_id] = card_order_ids]

\* cards.findOneAndUpdate({_id}, {$set: {column_id}})
updateCard(cs, card_id, column_id) == [cs EXCEPT ![card_id] = column_id]

UpdateSourceColumn(m) ==
  /\ moves[m].pc = "source"
  /\ columns' = updateColumn(columns, moves[m].body.prev_column_id, moves[m].body.prev_card_order_ids)
  /\ moves' = [moves EXCEPT ![m] = [@ EXCEPT !.pc = "destination", !.writes = 1]]
  /\ UNCHANGED <<authVars, utilVars, cards>>

UpdateDestinationColumn(m) ==
  /\ moves[m].pc = "destination"
  /\ columns' = updateColumn(columns, moves[m].body.next_column_id, moves[m].body.next_card_order_ids)
  /\ moves' = [moves EXCEPT ![m] = [@ EXCEPT !.pc = "card", !.writes = 2]]
  /\ UNCHANGED <<authVars, utilVars, cards>>

UpdateCard(m) ==
  /\ moves[m].pc = "card"
  /\ cards' = updateCard(cards, moves[m].body.current_card_id, moves[m].body.next_column_id)
  /\ moves' = [moves EXCEPT ![m] =
       MoveRespond([@ EXCEPT !.writes = 3], OK, MOVE_CARD_TO_DIFFERENT_COLUMN_SUCCESS, <<>>)]
  /\ UNCHANGED <<authVars, utilVars, columns>>

(***************************************************************************)
(* The account tokens: POST /auth/resend-verify-email, /auth/forgot-       *)
(* password, /auth/verify-forgot-password and /auth/reset-password.  The   *)
(* user document has one slot per kind: email_verify_token and             *)
(* forgot_password_token.                                                  *)
(***************************************************************************)
RESEND_VERIFY_EMAIL_SUCCESS == "Resend verify email successfully"
CHECK_EMAIL_TO_RESET_PASSWORD == "Check email to reset password"
FORGOT_PASSWORD_TOKEN_IS_REQUIRED == "Forgot password token is required"
INVALID_FORGOT_PASSWORD_TOKEN == "Invalid forgot password token"
VERIFY_FORGOT_PASSWORD_SUCCESS == "Verify forgot password successfully"
RESET_PASSWORD_SUCCESS == "Reset password successfully"

\* The number of requests of a run of the account service.
MaxAccountRequests == 4

\* What a client of the account service puts in a cookie or a body: nothing,
\* or a token received by login or by mail.
Mailed == {t \in issued : t.token_type # RefreshToken} \cup {NoToken}

\* A new request of the account service takes the first free slot.
CanStartAccount(s) == CanStart(s) /\ started < MaxAccountRequests

\* The update of the one user document with that id.
updateUser(coll, user_id, update) ==
  {IF u.id = user_id THEN update[u] ELSE u : u \in coll}

StartResendVerifyEmail(s, access_token) ==
  /\ CanStartAccount(s)
  /\ requests' = [requests EXCEPT ![s] =
       [IdleRequest EXCEPT !.op = "resend-verify-email", !.pc = "validator",
                           !.access_token = access_token]]
  /\ started' = started + 1
  /\ UNCHANGED <<now, users, refreshTokens, issued, rotated, revoked, boardVars, utilVars>>

\* accessTokenValidator in front of resendVerifyEmailController.
ResendVerifyEmailValidator(s) ==
  /\ requests[s].op = "resend-verify-email" /\ requests[s].pc = "validator"
  /\ LET outcome == accessTokenValidator(requests[s], now)
         seen == [requests[s] EXCEPT
                    !.afterLogout = \E r \in revoked \ refreshTokens :
                                       /\ r.user_id = requests[s].access_token.user_id
                                       /\ r.iat = requests[s].access_token.iat
                                       /\ r.claims = requests[s].access_token.claims]
     IN  requests' = [requests EXCEPT ![s] =
           IF outcome.next
           THEN [seen EXCEPT !.pc = "controller",
                             !.decoded_authorization = accessTokenCheck(requests[s], now).decoded]
           ELSE Reject(seen, outcome)]
  /\ UNCHANGED <<now, users, refreshTokens, issued, rotated, revoked, started, boardVars, utilVars>>

\* resendVerifyEmailController up to the call of the service.
ResendVerifyEmailController(s) ==
  /\ requests[s].op = "resend-verify-email" /\ requests[s].pc = "controller"
  /\ LET user == findUserById(requests[s].decoded_authorization.user_id)
     IN  requests' = [requests EXCEPT ![s] =
           IF user = NoUser THEN Respond(@, NOT_FOUND, USER_NOT_FOUND, <<>>, NoTokens)
           ELSE IF user.verify = Verified
           THEN Respond(@, OK, EMAIL_ALREADY_VERIFIED_BEFORE, <<>>, NoTokens)
           ELSE [@ EXCEPT !.pc = "service"]]
  /\ UNCHANGED <<now, users, refreshTokens, issued, rotated, revoked, started, boardVars, utilVars>>

\* authService.resendVerifyEmail: a new email verify token overwrites the
\* stored one and is mailed.
resendVerifyEmail(user, clock) ==
  [user EXCEPT !.email_verify_token = signEmailVerifyToken(user.id, Unverified, clock)]

ResendVerifyEmailService(s) ==
  /\ requests[s].op = "resend-verify-email" /\ requests[s].pc = "service"
  /\ LET user_id == requests[s].decoded_authorization.user_id
         Update == [u \in users |-> resendVerifyEmail(u, now)]
     IN  /\ users' = updateUser(users, user_id, Update)
         /\ issued' = issued \cup {signEmailVerifyToken(user_id, Unverified, now)}
  /\ requests' = [requests EXCEPT ![s] =
       Respond(@, OK, RESEND_VERIFY_EMAIL_SUCCESS, <<>>, NoTokens)]
  /\ UNCHANGED <<now, refreshTokens, rotated, revoked, started, boardVars, utilVars>>

StartForgotPassword(s, email) ==
  /\ CanStartAccount(s)
  /\ requests' = [requests EXCEPT ![s] =
       [IdleRequest EXCEPT !.op = "forgot-password", !.pc = "validator", !.email = email]]
  /\ started' = started + 1
  /\ UNCHANGED <<now, users, refreshTokens, issued, rotated, revoked, boardVars, utilVars>>

\* forgotPasswordValidator: the email must be the email of a user, who is
\* attached as req.user.
forgotPasswordValidator(req) ==
  validate(<< FieldError("email", 0,
                IF ~isEmail(req.email) THEN EMAIL_IS_INVALID
                ELSE IF ~checkEmailExist(trim(req.email)) THEN USER_NOT_FOUND
                ELSE "") >>)

ForgotPasswordValidator(s) ==
  /\ requests[s].op = "forgot-password" /\ requests[s].pc = "validator"
  /\ LET outcome == forgotPasswordValidator(requests[s])
         user == FirstOf({u \in users : u.email = trim(requests[s].email)})
     IN  requests' = [requests EXCEPT ![s] =
           IF outcome.next THEN [@ EXCEPT !.pc = "controller", !.user = user]
           ELSE Reject(@, outcome)]
  /\ UNCHANGED <<now, users, refreshTokens, issued, rotated, revoked, started, boardVars, utilVars>>

\* authService.forgotPassword: a new forgot password token overwrites the
\* stored one and is mailed.
forgotPassword(user, verify, clock) ==
  [user EXCEPT !.forgot_password_token = signForgotPasswordToken(user.id, verify, clock)]

\* forgotPasswordController: _id and verify are those of req.user.
ForgotPasswordController(s) ==
  /\ requests[s].op = "forgot-password" /\ requests[s].pc = "controller"
  /\ LET user_id == requests[s].user.id
         verify == requests[s].user.verify
         Update == [u \in users |-> forgotPassword(u, verify, now)]
     IN  /\ users' = updateUser(users, user_id, Update)
         /\ issued' = issued \cup {signForgotPasswordToken(user_id, verify, now)}
  /\ requests' = [requests EXCEPT ![s] =
       Respond(@, OK, CHECK_EMAIL_TO_RESET_PASSWORD, <<>>, NoTokens)]
  /\ UNCHANGED <<now, refreshTokens, rotated, revoked, started, boardVars, utilVars>>

\* The error of the forgot_password_token body field: [status, msg, decoded].
forgotPasswordTokenCheck(value, clock) ==
  LET verified == verifyToken(value, jwtSecretForgotPasswordToken, clock)
      user == findUserById(verified.decoded.user_id)
  IN  IF value = NoToken
      THEN [status |-> UNAUTHORIZED, msg |-> FORGOT_PASSWORD_TOKEN_IS_REQUIRED, decoded |-> NoPayload]
      ELSE IF ~verified.ok
      THEN [status |-> UNAUTHORIZED, msg |-> capitalize(verified.error), decoded |-> NoPayload]
      ELSE IF user = NoUser
      THEN [status |-> UNAUTHORIZED, msg |-> USER_NOT_FOUND, decoded |-> NoPayload]
      ELSE IF user.forgot_password_token # value
      THEN [status |-> UNAUTHORIZED, msg |-> INVALID_FORGOT_PASSWORD_TOKEN, decoded |-> NoPayload]
      ELSE [status |-> 0, msg |-> "", decoded |-> verified.decoded]

StartVerifyForgotPassword(s, forgot_password_token) ==
  /\ CanStartAccount(s)
  /\ requests' = [requests EXCEPT ![s] =
       [IdleRequest EXCEPT !.op = "verify-forgot-password", !.pc = "validator",
                           !.forgot_password_token = forgot_password_token]]
  /\ started' = started + 1
  /\ UNCHANGED <<now, users, refreshTokens, issued, rotated, revoked, boardVars, utilVars>>

verifyForgotPasswordTokenValidator(req, clock) ==
  LET check == forgotPasswordTokenCheck(req.forgot_password_token, clock)
  IN  validate(<< FieldError("forgot_password_token", check.status, check.msg) >>)

VerifyForgotPasswordTokenValidator(s) ==
  /\ requests[s].op = "verify-forgot-password" /\ requests[s].pc = "validator"
  /\ LET outcome == verifyForgotPasswordTokenValidator(requests[s], now)
     IN  requests' = [requests EXCEPT ![s] =
           IF outcome.next
           THEN [@ EXCEPT !.pc = "controller",
                          !.decoded_forgot_password_token =
                             forgotPasswordTokenCheck(requests[s].forgot_password_token, now).decoded]
           ELSE Reject(@, outcome)]
  /\ UNCHANGED <<now, users, refreshTokens, issued, rotated, revoked, started, boardVars, utilVars>>

\* verifyForgotPasswordController / authService.verifyForgotPassword: no write.
VerifyForgotPasswordController(s) ==
  /\ requests[s].op = "verify-forgot-password" /\ requests[s].pc = "controller"
  /\ requests' = [requests EXCEPT ![s] =
       Respond(@, OK, VERIFY_FORGOT_PASSWORD_SUCCESS, <<>>, NoTokens)]
  /\ UNCHANGED <<now, users, refreshTokens, issued, rotated, revoked, started, boardVars, utilVars>>

\* The bodies of POST /auth/reset-password: password and confirm_password.
ResetBodies == { <<"Other456?", "Other456?">>, <<"secret", "secret">> }

StartResetPassword(s, forgot_password_token, password, confirm_password) ==
  /\ CanStartAccount(s)
  /\ requests' = [requests EXCEPT ![s] =
       [IdleRequest EXCEPT !.op = "reset-password", !.pc = "validator",
                           !.forgot_password_token = forgot_password_token,
                           !.password = password, !.confirm_password = confirm_password]]
  /\ started' = started + 1
  /\ UNCHANGED <<now, users, refreshTokens, issued, rotated, revoked, boardVars, utilVars>>

resetPasswordValidator(req, clock) ==
  LET check == forgotPasswordTokenCheck(req.forgot_password_token, clock)
  IN  validate(<< FieldError("password", 0, passwordSchema(req.password)),
                  FieldError("confirm_password", 0,
                             confirmPasswordSchema(req.confirm_password, req.password)),
                  FieldError("forgot_password_token", check.status, check.msg) >>)

ResetPasswordValidator(s) ==
  /\ requests[s].op = "reset-password" /\ requests[s].pc = "validator"
  /\ LET outcome == resetPasswordValidator(requests[s], now)
     IN  requests' = [requests EXCEPT ![s] =
           IF outcome.next
           THEN [@ EXCEPT !.pc = "controller",
                          !.decoded_forgot_password_token =
                             forgotPasswordTokenCheck(requests[s].forgot_password_token, now).decoded]
           ELSE Reject(@, outcome)]
  /\ UNCHANGED <<now, users, refreshTokens, issued, rotated, revoked, started, boardVars, utilVars>>

\* authService.resetPassword: the update of the user document.
resetPassword(user, password) ==
  [user EXCEPT !.password = hashPassword(password), !.forgot_password_token = NoToken]

ResetPasswordController(s) ==
  /\ requests[s].op = "reset-password" /\ requests[s].pc = "controller"
  /\ LET user_id == requests[s].decoded_forgot_password_token.user_id
         Update == [u \in users |-> resetPassword(u, requests[s].password)]
     IN  users' = updateUser(users, user_id, Update)
  /\ requests' = [requests EXCEPT ![s] = Respond(@, OK, RESET_PASSWORD_SUCCESS, <<>>, NoTokens)]
  /\ UNCHANGED <<now, refreshTokens, issued, rotated, revoked, started, boardVars, utilVars>>

(***************************************************************************)
(* The token codec on its own: signToken and verifyToken applied to every  *)
(* kind of token and every payload.                                        *)
(***************************************************************************)
MaxCodecTime == 4

TokenKinds == {AccessToken, RefreshToken, EmailVerifyToken, ForgotPasswordToken}

\* The secret and the expiresIn option envConfig holds for a kind.
SecretOf(kind) ==
  CASE kind = AccessToken -> jwtSecretAccessToken
    [] kind = RefreshToken -> jwtSecretRefreshToken
    [] kind = EmailVerifyToken -> jwtSecretEmailVerifyToken
    [] kind = ForgotPasswordToken -> jwtSecretForgotPasswordToken

ExpiresInOf(kind) ==
  CASE kind = AccessToken -> accessTokenExpiresIn
    [] kind = RefreshToken -> refreshTokenExpiresIn
    [] kind = EmailVerifyToken -> emailVerifyTokenExpiresIn
    [] kind = ForgotPasswordToken -> forgotPasswordTokenExpiresIn

\* The payloads handed to signToken: with the expiresIn option, or carrying
\* their own exp as the payload of a rotated refresh token does.
Payloads ==
  [user_id : {1, 2}, token_type : TokenKinds, verify : {Unverified, Verified}]
  \cup [user_id : {1, 2}, token_type : TokenKinds, verify : {Unverified, Verified}, exp : {2}]

NoSigned ==
  [kind |-> "", payload |-> [user_id |-> 0, token_type |-> "", verify |-> ""], clock |-> 0,
   jwt |-> NoToken]

NoDecoded ==
  [kind |-> "", clock |-> 0, jwt |-> NoToken, outcome |-> verifyToken(NoToken, "", 0)]

\* signToken({payload, privateKey, options}) with the secret of a kind.
Sign(kind, payload) ==
  /\ signing' = [kind |-> kind, payload |-> payload, clock |-> now,
                 jwt |-> signToken(payload, SecretOf(kind), ExpiresInOf(kind), now)]
  /\ verification' = NoDecoded
  /\ UNCHANGED <<authVars, boardVars, validation, err, res>>

\* verifyToken({token, secretOrPublicKey}) with the secret of a kind.
Verify(kind) ==
  /\ signing # NoSigned
  /\ verification' = [kind |-> kind, clock |-> now, jwt |-> signing.jwt,
                      outcome |-> verifyToken(signing.jwt, SecretOf(kind), now)]
  /\ UNCHANGED <<authVars, boardVars, signing, validation, err, res>>

CodecTick ==
  /\ now < MaxCodecTime
  /\ now' = now + 1
  /\ UNCHANGED <<users, refreshTokens, requests, issued, rotated, revoked, started, boardVars,
                 utilVars>>

(***************************************************************************)
(* defaultErrorHandler, the last middleware of the app.  An error is what  *)
(* the handler can see of it: whether it is an ErrorWithStatus, its own    *)
(* enumerable properties, and err.message (which an Error holds in a       *)
(* property that is not enumerable).                                       *)
(***************************************************************************)
INTERNAL_SERVER_ERROR == 500
INTERNAL_SERVER_ERROR_MESSAGE == "Internal server error"

NoError == [thrown |-> FALSE, nullish |-> FALSE, instanceofErrorWithStatus |-> FALSE,
            message |-> "", enumerable |-> <<>>]
NoResponse == [status |-> 0, body |-> <<>>]

\* new ErrorWithStatus({message, status}) and new EntityError({errors}).
ErrorWithStatus(message, status) ==
  [thrown |-> TRUE, nullish |-> FALSE, instanceofErrorWithStatus |-> TRUE,
   message |-> message, enumerable |-> [message |-> message, status |-> status]]

EntityError(errors) ==
  [thrown |-> TRUE, nullish |-> FALSE, instanceofErrorWithStatus |-> TRUE,
   message |-> VALIDATION_ERROR,
   enumerable |-> [message |-> VALIDATION_ERROR, status |-> UNPROCESSABLE_ENTITY,
                   errors |-> errors]]

\* Any other thrown value: an Error (message and stack are own properties
\* that are not enumerable) with the enumerable properties a driver or a
\* library adds to it, or a plain object.
OtherError(message, enumerable) ==
  [thrown |-> TRUE, nullish |-> FALSE, instanceofErrorWithStatus |-> FALSE,
   message |-> message, enumerable |-> enumerable]

\* next(undefined-like value): reading its properties throws.
NullishError == [NoError EXCEPT !.thrown = TRUE, !.nullish = TRUE]

ThrownMessages ==
  {USER_NOT_FOUND, ACCESS_TOKEN_IS_REQUIRED, "Jwt expired", USED_REFRESH_TOKEN_OR_NOT_EXIST,
   CARD_NOT_FOUND, USER_NOT_VERIFIED}

OtherMessages ==
  {"connect ECONNREFUSED 127.0.0.1:27017", "E11000 duplicate key error collection: users",
   "Cannot read properties of null (reading '_id')", "secretOrPrivateKey must have a value",
   "request entity too large", ""}

Errors ==
  { ErrorWithStatus(message, status) :
      message \in ThrownMessages, status \in {UNAUTHORIZED, FORBIDDEN, NOT_FOUND, UNPROCESSABLE_ENTITY} }
  \cup { EntityError(errors) :
           errors \in { << <<"email", EMAIL_IS_INVALID>> >>,
                        << <<"email", EMAIL_ALREADY_EXISTS>> >>,
                        << <<"password", PASSWORD_MUST_BE_STRONG>> >>,
                        << <<"email", EMAIL_IS_INVALID>>, <<"password", PASSWORD_IS_REQUIRED>> >> } }
  \cup UNION { { OtherError(message, enumerable) :
                   enumerable \in { <<>>, [code |-> "ECONNREFUSED"],
                                    [code |-> "E11000", stack |-> "at insertOne"],
                                    [message |-> message, stack |-> "at handler"] } } :
                 message \in OtherMessages }
  \cup { NullishError }

\* lodash omit on the own enumerable properties of an object.
omit(object, paths) == [key \in DOMAIN object \ paths |-> object[key]]

defaultErrorHandler(e) ==
  IF e.nullish
  THEN [status |-> INTERNAL_SERVER_ERROR,
        body |-> [message |-> INTERNAL_SERVER_ERROR_MESSAGE, errorInfo |-> omit(<<>>, {"stack"})]]
  ELSE IF e.instanceofErrorWithStatus
  THEN [status |-> e.enumerable.status, body |-> omit(e.enumerable, {"status"})]
  ELSE [status |-> INTERNAL_SERVER_ERROR,
        body |-> [message |-> e.message, errorInfo |-> omit(e.enumerable, {"stack"})]]

\* A middleware or a wrapped controller calls next(err).
NextError(e) ==
  /\ err' = e
  /\ res' = NoResponse
  /\ UNCHANGED <<authVars, boardVars, signing, verification, validation>>

DefaultErrorHandler ==
  /\ err.thrown /\ res = NoResponse
  /\ res' = defaultErrorHandler(err)
  /\ UNCHANGED <<authVars, boardVars, signing, verification, validation, err>>

(***************************************************************************)
(* A run of the validate wrapper on a schema of up to three fields: every  *)
(* field passes, fails with a plain message, or fails with an              *)
(* ErrorWithStatus (401, 404 or 422).                                      *)
(***************************************************************************)
FieldNames == << "email", "password", "confirm_password" >>

\* What the first error of a field can be: [status, msg].
FieldResults ==
  { <<0, "">>, <<0, EMAIL_IS_INVALID>>, <<UNAUTHORIZED, ACCESS_TOKEN_IS_REQUIRED>>,
    <<NOT_FOUND, USER_NOT_FOUND>>, <<UNPROCESSABLE_ENTITY, EMAIL_ALREADY_EXISTS>> }

FieldsOf(results) ==
  [i \in 1..Len(results) |-> FieldError(FieldNames[i], results[i][1], results[i][2])]

Schemas ==
  { FieldsOf(results) :
      results \in UNION { [1..n -> FieldResults] : n \in 1..Len(FieldNames) } }

NoValidation == [fields |-> <<>>, outcome |-> NextOutcome]

\* The middleware runs the chain on a request and calls next() or next(err).
RunValidate(fields) ==
  /\ validation' = [fields |-> fields, outcome |-> validate(fields)]
  /\ err' = IF validate(fields).next THEN NoError
            ELSE IF validate(fields).errors # <<>> THEN EntityError(validate(fields).errors)
            ELSE ErrorWithStatus(validate(fields).message, validate(fields).status)
  /\ res' = NoResponse
  /\ UNCHANGED <<authVars, boardVars, signing, verification>>

(***************************************************************************)
(* Specifications.                                                         *)
(***************************************************************************)
InitBoard ==
  /\ columns = [c \in ColumnIds |-> IF c = "C1" THEN <<"K1", "K2">> ELSE <<"K3">>]
  /\ cards = [k \in CardIds |-> IF k = "K3" THEN "C2" ELSE "C1"]
  /\ moves = [m \in MoveSlots |-> IdleMove]

\* No call of the utilities has been made.
InitUtil ==
  /\ signing = NoSigned /\ verification = NoDecoded /\ validation = NoValidation
  /\ err = NoError /\ res = NoResponse

InitAuth ==
  /\ users = {}
  /\ refreshTokens = {}
  /\ requests = [s \in Slots |-> IdleRequest]
  /\ issued = {}
  /\ rotated = {}
  /\ revoked = {}
  /\ started = 0

\* The authentication service on an empty database.
Init == now = 0 /\ InitAuth /\ InitBoard /\ InitUtil

Next ==
  \/ Tick
  \/ \E s \in Slots, body \in RegisterBodies :
       StartRegister(s, body[1], PasswordOf(body[2]), PasswordOf(body[3]))
  \/ \E s \in Slots : RegisterValidator(s)
  \/ \E s \in Slots : RegisterController(s)
  \/ \E s \in Slots, body \in LoginBodies : StartLogin(s, body[1], PasswordOf(body[2]))
  \/ \E s \in Slots : LoginValidator(s)
  \/ \E s \in Slots : LoginController(s)
  \/ \E s \in Slots, token \in Presentable : StartLogout(s, token)
  \/ \E s \in Slots : LogoutController(s)
  \/ \E s \in Slots, token \in Presentable : StartRefreshToken(s, token)
  \/ \E s \in Slots : RefreshTokenValidator(s)
  \/ \E s \in Slots : RefreshTokenController(s)
  \/ \E s \in Slots : RefreshTokenInsert(s)
  \/ \E s \in Slots, token \in Presentable : StartVerifyEmail(s, token)
  \/ \E s \in Slots : EmailVerifyTokenValidator(s)
  \/ \E s \in Slots : VerifyEmailController(s)
  \/ \E s \in Slots : VerifyEmailService(s)

Spec == Init /\ [][Next]_vars

\* The board service at clock 1, on a board with two columns and three cards.
BoardInit == now = 1 /\ InitAuth /\ InitBoard /\ InitUtil

BoardNext ==
  \/ \E m \in MoveSlots : StartMove(m)
  \/ \E m \in MoveSlots : AccessTokenValidator(m)
  \/ \E m \in MoveSlots : VerifiedUserValidator(m)
  \/ \E m \in MoveSlots : MoveCardToDifferentColumnValidator(m)
  \/ \E m \in MoveSlots : FilterMiddleware(m)
  \/ \E m \in MoveSlots : UpdateSourceColumn(m)
  \/ \E m \in MoveSlots : UpdateDestinationColumn(m)
  \/ \E m \in MoveSlots : UpdateCard(m)

BoardSpec == BoardInit /\ [][BoardNext]_vars

\* The account service at clock 0, after one user has registered, logged in
\* and asked for a password reset mail.
AccountInit ==
  /\ now = 0
  /\ users = {forgotPassword(register(1, "alice@example.com", PasswordOf("Secret123!"), 0),
                              Unverified, 0)}
  /\ refreshTokens = {login(1, Unverified, 0).refresh_token}
  /\ requests = [s \in Slots |-> IdleRequest]
  /\ issued = {signEmailVerifyToken(1, Unverified, 0), signForgotPasswordToken(1, Unverified, 0),
               login(1, Unverified, 0).access_token, login(1, Unverified, 0).refresh_token}
  /\ rotated = {}
  /\ revoked = {}
  /\ started = 0
  /\ InitBoard /\ InitUtil

AccountNext ==
  \/ Tick
  \/ \E s \in Slots :
       CanStartAccount(s) /\ StartLogin(s, "alice@example.com", PasswordOf("Secret123!"))
  \/ \E s \in Slots : LoginValidator(s)
  \/ \E s \in Slots : LoginController(s)
  \/ \E s \in Slots, token \in Mailed :
       CanStartAccount(s) /\ StartVerifyEmail(s, token)
  \/ \E s \in Slots : EmailVerifyTokenValidator(s)
  \/ \E s \in Slots : VerifyEmailController(s)
  \/ \E s \in Slots : VerifyEmailService(s)
  \/ \E s \in Slots, token \in Mailed : StartResendVerifyEmail(s, token)
  \/ \E s \in Slots : ResendVerifyEmailValidator(s)
  \/ \E s \in Slots : ResendVerifyEmailController(s)
  \/ \E s \in Slots : ResendVerifyEmailService(s)
  \/ \E s \in Slots, email \in {"alice@example.com", MalformedEmail} : StartForgotPassword(s, email)
  \/ \E s \in Slots : ForgotPasswordValidator(s)
  \/ \E s \in Slots : ForgotPasswordController(s)
  \/ \E s \in Slots, token \in Mailed : StartVerifyForgotPassword(s, token)
  \/ \E s \in Slots : VerifyForgotPasswordTokenValidator(s)
  \/ \E s \in Slots : VerifyForgotPasswordController(s)
  \/ \E s \in Slots, token \in Mailed, body \in ResetBodies :
       StartResetPassword(s, token, PasswordOf(body[1]), PasswordOf(body[2]))
  \/ \E s \in Slots : ResetPasswordValidator(s)
  \/ \E s \in Slots : ResetPasswordController(s)

AccountSpec == AccountInit /\ [][AccountNext]_vars

\* The authentication service at clock 0, after one user has registered and
\* logged in; a rotation can fail between its two writes.
RotationInit ==
  /\ now = 0
  /\ users = {register(1, "alice@example.com", PasswordOf("Secret123!"), 0)}
  /\ refreshTokens = {login(1, Unverified, 0).refresh_token}
  /\ requests = [s \in Slots |-> IdleRequest]
  /\ issued = {signEmailVerifyToken(1, Unverified, 0),
               login(1, Unverified, 0).access_token, login(1, Unverified, 0).refresh_token}
  /\ rotated = {}
  /\ revoked = {}
  /\ started = 0
  /\ InitBoard /\ InitUtil

RotationNext ==
  \/ Tick
  \/ \E s \in Slots : StartLogin(s, "alice@example.com", PasswordOf("Secret123!"))
  \/ \E s \in Slots : LoginValidator(s)
  \/ \E s \in Slots : LoginController(s)
  \/ \E s \in Slots, token \in Presentable : StartLogout(s, token)
  \/ \E s \in Slots : LogoutController(s)
  \/ \E s \in Slots, token \in Presentable : StartRefreshToken(s, token)
  \/ \E s \in Slots : RefreshTokenValidator(s)
  \/ \E s \in Slots : RefreshTokenController(s)
  \/ \E s \in Slots : RefreshTokenInsert(s)
  \/ \E s \in Slots : InterruptRotation(s)

RotationSpec == RotationInit /\ [][RotationNext]_vars

\* The validate wrapper in front of the error handler.
ValidateInit == now = 0 /\ InitAuth /\ InitBoard /\ InitUtil

ValidateNext ==
  \/ \E fields \in Schemas : RunValidate(fields)
  \/ DefaultErrorHandler

ValidateSpec == ValidateInit /\ [][ValidateNext]_vars

\* Registrations on an empty database, any number of them for an address.
RegisterInit == now = 0 /\ InitAuth /\ InitBoard /\ InitUtil

RegisterNext ==
  \/ Tick
  \/ \E s \in Slots, body \in RegisterBodies :
       StartRegisterAny(s, body[1], PasswordOf(body[2]), PasswordOf(body[3]))
  \/ \E s \in Slots : RegisterValidator(s)
  \/ \E s \in Slots : RegisterController(s)

RegisterSpec == RegisterInit /\ [][RegisterNext]_vars

\* The session of one registered, logged-in user: logins, logouts and
\* requests behind accessTokenValidator.
SessionNext ==
  \/ Tick
  \/ \E s \in Slots : StartLogin(s, "alice@example.com", PasswordOf("Secret123!"))
  \/ \E s \in Slots : LoginValidator(s)
  \/ \E s \in Slots : LoginController(s)
  \/ \E s \in Slots, token \in Presentable : StartLogout(s, token)
  \/ \E s \in Slots : LogoutController(s)
  \/ \E s \in Slots, token \in Mailed : StartResendVerifyEmail(s, token)
  \/ \E s \in Slots : ResendVerifyEmailValidator(s)
  \/ \E s \in Slots : ResendVerifyEmailController(s)
  \/ \E s \in Slots : ResendVerifyEmailService(s)

SessionSpec == RotationInit /\ [][SessionNext]_vars

\* The token codec at clock 0.
CodecInit == now = 0 /\ InitAuth /\ InitBoard /\ InitUtil

CodecNext ==
  \/ CodecTick
  \/ \E kind \in TokenKinds, payload \in Payloads : Sign(kind, payload)
  \/ \E kind \in TokenKinds : Verify(kind)

CodecSpec == CodecInit /\ [][CodecNext]_vars

\* The error handler before any error.
ErrorInit == now = 0 /\ InitAuth /\ InitBoard /\ InitUtil

ErrorNext ==
  \/ \E e \in Errors : NextError(e)
  \/ DefaultErrorHandler

ErrorSpec == ErrorInit /\ [][ErrorNext]_vars



(***************************************************************************)
(* Properties of the refresh token life cycle.                             *)
(***************************************************************************)
\* The request in slot s has just been handled by the step it was waiting at.
Stepped(s, op, pc) ==
  requests[s].op = op /\ requests[s].pc = pc /\ requests'[s] # requests[s]

Rejected(req, status, message) ==
  req.pc = "done" /\ req.status = status /\ req.message = message

\* A refresh token as login signs it.
LoginIssued(token) == token.token_type = RefreshToken /\ token.claims = "iat,exp"

\* C1: once a refresh presenting the refresh token R of a login has succeeded,
\* every later refresh request presenting R is rejected with
\* USED_REFRESH_TOKEN_OR_NOT_EXIST.
C1_RotatedTokenRejected ==
  \A s \in Slots :
    (/\ requests[s].op = "refresh-token"
     /\ LoginIssued(requests[s].refresh_token)
     /\ requests[s].afterRotation)
    => Rejected(requests[s], UNAUTHORIZED, USED_REFRESH_TOKEN_OR_NOT_EXIST)

\* C2: of two refresh requests that present the same refresh token
\* concurrently, at most one succeeds.
C2_AtMostOneConcurrentRefresh ==
  \A s, t \in Slots :
    ~ (/\ s # t
       /\ requests[s].op = "refresh-token" /\ requests[t].op = "refresh-token"
       /\ requests[s].refresh_token = requests[t].refresh_token
       /\ requests[s].raced /\ ~requests[t].raced
       /\ Rejected(requests[s], OK, REFRESH_TOKEN_SUCCESS)
       /\ Rejected(requests[t], OK, REFRESH_TOKEN_SUCCESS))

\* C3: once a logout has removed refresh token R from the store, every later
\* refresh request presenting R is rejected with
\* USED_REFRESH_TOKEN_OR_NOT_EXIST.
C3_RevokedTokenRejected ==
  \A s \in Slots :
    (requests[s].op = "refresh-token" /\ requests[s].afterLogout)
    => Rejected(requests[s], UNAUTHORIZED, USED_REFRESH_TOKEN_OR_NOT_EXIST)

(***************************************************************************)
(* Properties of register, login and logout.                               *)
(***************************************************************************)
\* C6: registerValidator rejects a registration whose email belongs to a
\* user with EMAIL_ALREADY_EXISTS; the request ends there, the users
\* collection is unchanged and no token is issued or stored.
C6_RegisterExistingEmailRejected ==
  [][\A s \in Slots :
       (Stepped(s, "register", "validator") /\ \E u \in users : u.email = requests[s].email)
       => /\ requests'[s].pc = "done"
          /\ requests'[s].status = UNPROCESSABLE_ENTITY
          /\ ErrorOf(requests'[s].errors, "email") = EMAIL_ALREADY_EXISTS
          /\ users' = users /\ refreshTokens' = refreshTokens /\ issued' = issued]_vars

C6_Witness ==
  \E s \in Slots :
    /\ requests[s].op = "register" /\ requests[s].pc = "done"
    /\ requests[s].status = UNPROCESSABLE_ENTITY
    /\ ErrorOf(requests[s].errors, "email") = EMAIL_ALREADY_EXISTS
    /\ \E u \in users : u.email = requests[s].email

\* Some user has the email and the hash of the password of the request.
CredentialsMatch(req) ==
  \E u \in users : u.email = req.email /\ u.password = hashPassword(req.password)

\* What every login step does whatever the message: the validator writes
\* nothing; the controller answers LOGIN_SUCCESS with a pair signed for the
\* user found, whatever the verify status, and stores the refresh token.
LoginSteps(s) ==
  /\ Stepped(s, "login", "validator") =>
       /\ users' = users /\ refreshTokens' = refreshTokens /\ issued' = issued
       /\ requests'[s].pc = (IF CredentialsMatch(requests[s]) THEN "controller" ELSE "done")
       /\ requests'[s].result = NoTokens
       /\ ~CredentialsMatch(requests[s]) => requests'[s].status = UNPROCESSABLE_ENTITY
  /\ Stepped(s, "login", "controller") =>
       /\ Rejected(requests'[s], OK, LOGIN_SUCCESS)
       /\ requests'[s].result.refresh_token \in refreshTokens'
       /\ requests'[s].result.refresh_token.verify = requests[s].user.verify
       /\ requests'[s].result.access_token.verify = requests[s].user.verify
       /\ requests'[s].result.refresh_token.user_id = requests[s].user.id
       /\ users' = users

\* C7 as stated: login succeeds exactly when a user has the email and the
\* hash of the password, whatever the verify status; every other login is
\* rejected with EMAIL_OR_PASSWORD_IS_INCORRECT and nothing is issued or
\* stored.
C7_AsStated ==
  [][\A s \in Slots :
       /\ LoginSteps(s)
       /\ (Stepped(s, "login", "validator") /\ ~CredentialsMatch(requests[s])) =>
            ErrorOf(requests'[s].errors, "email") = EMAIL_OR_PASSWORD_IS_INCORRECT]_vars

\* C7: login succeeds exactly when a user has the email and the hash of the
\* password, whatever the verify status; every other login is rejected with
\* nothing issued or stored, the email field carrying
\* EMAIL_OR_PASSWORD_IS_INCORRECT when the email is well formed and
\* EMAIL_IS_INVALID when it is not.
C7_LoginOutcome ==
  [][\A s \in Slots :
       /\ LoginSteps(s)
       /\ (Stepped(s, "login", "validator") /\ ~CredentialsMatch(requests[s])) =>
            ErrorOf(requests'[s].errors, "email") =
              (IF isEmail(requests[s].email) THEN EMAIL_OR_PASSWORD_IS_INCORRECT
               ELSE EMAIL_IS_INVALID)]_vars

C7_Witness ==
  \E s, t \in Slots :
    /\ requests[s].op = "login" /\ Rejected(requests[s], OK, LOGIN_SUCCESS)
    /\ requests[s].user.verify = Verified
    /\ requests[t].op = "login" /\ requests[t].pc = "done"
    /\ ErrorOf(requests[t].errors, "email") = EMAIL_OR_PASSWORD_IS_INCORRECT

\* C10: logout with a refresh token that is not in the store answers
\* LOGOUT_SUCCESS and leaves the store as it is; with a token that is in the
\* store it removes that token and nothing else.
C10_LogoutIdempotent ==
  [][\A s \in Slots :
       Stepped(s, "logout", "controller") =>
         /\ Rejected(requests'[s], OK, LOGOUT_SUCCESS)
         /\ refreshTokens' = refreshTokens \ {requests[s].refresh_token}
         /\ requests[s].refresh_token \notin refreshTokens => refreshTokens' = refreshTokens
         /\ users' = users]_vars

C10_Witness ==
  \E s \in Slots :
    /\ requests[s].op = "logout" /\ Rejected(requests[s], OK, LOGOUT_SUCCESS)
    /\ requests[s].absent
    /\ requests[s].refresh_token \in revoked
    /\ refreshTokens # {}

(***************************************************************************)
(* Properties of PUT /boards/supports/moving-card.                         *)
(***************************************************************************)
\* The request asks to take its card out of the column the card was in when
\* the request was accepted and to put it into another column.
MovesAcross(req) ==
  /\ req.from = req.body.prev_column_id
  /\ req.body.next_column_id # req.body.prev_column_id
  /\ req.body.current_card_id \notin Range(req.body.prev_card_order_ids)
  /\ req.body.current_card_id \in Range(req.body.next_card_order_ids)

\* C4: when a request that moves card K from column C1 to column C2
\* completes, K.column_id is C2, the card_order_ids of C1 do not contain K and
\* the card_order_ids of C2 contain K.
C4_MovedCardIsInDestination ==
  [][\A m \in MoveSlots :
       (moves[m].pc = "card" /\ moves'[m].pc = "done" /\ MovesAcross(moves[m]))
       => LET body == moves[m].body
          IN  /\ cards'[body.current_card_id] = body.next_column_id
              /\ body.current_card_id \notin Range(columns'[body.prev_column_id])
              /\ body.current_card_id \in Range(columns'[body.next_column_id])]_vars

IsPermutationOf(seq, S) == Range(seq) = S /\ Len(seq) = Cardinality(S)

\* C5: when no move is in flight, the card_order_ids of every column are a
\* permutation of the ids of the cards whose column_id is that column.
C5_OrderIsPermutation ==
  (\A m \in MoveSlots : moves[m].pc = "done")
  => \A c \in ColumnIds : IsPermutationOf(columns[c], {k \in CardIds : cards[k] = c})

\* The request has been through accessTokenValidator.
Authenticated(req) == req.passed # <<>> \/ req.status # 0

\* C8: the access token step takes the token of the access_token cookie when
\* there is one and the Bearer token of the Authorization header otherwise;
\* without either it rejects with ACCESS_TOKEN_IS_REQUIRED (401) and attaches
\* nothing, and a token that verifies gets its claims attached.
C8_CookieThenHeader ==
  \A m \in MoveSlots :
    LET req == moves[m]
        token == IF req.access_token # NoToken THEN req.access_token ELSE req.authorization
    IN  Authenticated(req) =>
          /\ token = NoToken =>
               /\ Rejected(req, UNAUTHORIZED, ACCESS_TOKEN_IS_REQUIRED)
               /\ req.decoded_authorization = NoPayload
          /\ verifyToken(token, jwtSecretAccessToken, now).ok =>
               /\ req.passed # <<>>
               /\ req.decoded_authorization = TokenPayload(token)

Chain ==
  << "accessTokenValidator", "verifiedUserValidator", "moveCardToDifferentColumnValidator",
     "filterMiddleware" >>

\* What the three validators of the route require of a request, in order.
Requirement(req, i) ==
  CASE i = 1 -> verifyToken(req.access_token, jwtSecretAccessToken, now).ok
    [] i = 2 -> req.access_token.verify = Verified
    [] i = 3 -> /\ req.body.current_card_id \in CardIds
                /\ req.body.prev_column_id \in ColumnIds
                /\ req.body.next_column_id \in ColumnIds
    [] OTHER -> TRUE

VerifyEmailUser(coll, req) ==
  FirstOf({u \in coll : u.id = req.decoded_email_verify_token.user_id})

Overwritten(token, kind, stored) ==
  token \in issued /\ token.token_type = kind /\ stored # NoToken /\ stored # token

C13_ResetOnce ==
  [][\A s \in Slots :
       Stepped(s, "reset-password", "controller")
       => LET user_id == requests[s].decoded_forgot_password_token.user_id
              user == FirstOf({u \in users' : u.id = user_id})
          IN  /\ user.password = <<"sha256", requests[s].password.text>>
              /\ user.forgot_password_token = NoToken
              /\ \A t \in Slots \ {s} :
                   ~ (/\ requests[t].op = "reset-password"
                      /\ requests[t].forgot_password_token = requests[s].forgot_password_token
                      /\ Rejected(requests[t], OK, RESET_PASSWORD_SUCCESS))]_vars

(***************************************************************************)
(* Properties of the token codec.                                          *)
(***************************************************************************)
\* The second at which the token of the last signToken call expires.
ExpiryOfSigning ==
  IF "exp" \in DOMAIN signing.payload THEN signing.payload.exp
  ELSE signing.clock + ExpiresInOf(signing.kind)

\* The last verifyToken call was made on the token of the last signToken call.
VerifiedSigning == signing # NoSigned /\ verification # NoDecoded /\ verification.jwt = signing.jwt

C16_ErrorHandler ==
  res # NoResponse
  => /\ "stack" \notin DOMAIN res.body
     /\ IF err.instanceofErrorWithStatus
        THEN /\ res.status = err.enumerable.status
             /\ DOMAIN res.body = DOMAIN err.enumerable \ {"status"}
             /\ \A key \in DOMAIN res.body : res.body[key] = err.enumerable[key]
        ELSE /\ res.status = INTERNAL_SERVER_ERROR
             /\ res.body.message = INTERNAL_SERVER_ERROR_MESSAGE
             /\ "stack" \notin DOMAIN res.body.errorInfo

(***************************************************************************)
(* Properties of the refresh token store.                                  *)
(***************************************************************************)
\* C17: a user may hold several valid refresh tokens at once: a login
\* removes no record of the store, and a logout or a refresh of one token
\* leaves every other record unchanged.
C17_OtherTokensKept ==
  [][\A s \in Slots :
       /\ Stepped(s, "login", "controller")
          => /\ refreshTokens \subseteq refreshTokens'
             /\ refreshTokens' \ refreshTokens \subseteq {requests'[s].result.refresh_token}
       /\ (Stepped(s, "logout", "controller") \/ Stepped(s, "refresh-token", "controller"))
          => /\ refreshTokens \ {requests[s].refresh_token} \subseteq refreshTokens'
             /\ refreshTokens' \subseteq refreshTokens
       /\ Stepped(s, "refresh-token", "insert")
          => /\ refreshTokens \subseteq refreshTokens'
             /\ refreshTokens' \ refreshTokens \subseteq {requests'[s].result.refresh_token}]_vars

\* A logout has removed one refresh token of a user who still holds two
\* others, the later one from a login made while the first was stored.
C17_Witness ==
  \E s \in Slots, kept, later \in refreshTokens :
    /\ requests[s].op = "logout" /\ Rejected(requests[s], OK, LOGOUT_SUCCESS)
    /\ requests[s].refresh_token \in revoked
    /\ requests[s].refresh_token \notin refreshTokens
    /\ kept # later
    /\ kept.user_id = requests[s].refresh_token.user_id
    /\ later.user_id = kept.user_id

(***************************************************************************)
(* Properties of the writes of a move.                                     *)
(***************************************************************************)
\* The documents of the two collections other than the named one are the
\* same before and after the step.
OnlyColumnChanges(column_id) ==
  cards' = cards /\ \A c \in ColumnIds \ {column_id} : columns'[c] = columns[c]

OnlyCardChanges(card_id) ==
  columns' = columns /\ \A k \in CardIds \ {card_id} : cards'[k] = cards[k]

\* The step is a write of the move in slot m.
Writes(m) == moves[m].pc # "done" /\ moves'[m].writes # moves[m].writes

\* C18: a move performs its three writes in the order source column,
\* destination column, card column_id, each a separate update of a single
\* document, and nothing else writes; between the writes the moved card can
\* be absent from both orderings or present in both (the witness).
C18_ThreeWritesInOrder ==
  [][/\ \A m \in MoveSlots :
          Writes(m)
          => LET body == moves[m].body
             IN  /\ moves'[m].writes = moves[m].writes + 1
                 /\ moves[m].writes = 0
                    => /\ columns'[body.prev_column_id] = body.prev_card_order_ids
                       /\ OnlyColumnChanges(body.prev_column_id)
                 /\ moves[m].writes = 1
                    => /\ columns'[body.next_column_id] = body.next_card_order_ids
                       /\ OnlyColumnChanges(body.next_column_id)
                 /\ moves[m].writes = 2
                    => /\ cards'[body.current_card_id] = body.next_column_id
                       /\ OnlyCardChanges(body.current_card_id)
                       /\ moves'[m].pc = "done"
     /\ (columns' # columns \/ cards' # cards) => \E m \in MoveSlots : Writes(m)]_vars

\* The only move ever started has made its first write and not its second:
\* its card is in the card_order_ids of neither column.
C18_Witness ==
  \E m \in MoveSlots :
    /\ moves[m].pc = "destination" /\ moves[m].writes = 1
    /\ MovesAcross(moves[m])
    /\ \A o \in MoveSlots \ {m} : moves[o] = IdleMove
    /\ started = 1
    /\ \A c \in ColumnIds : moves[m].body.current_card_id \notin Range(columns[c])
    /\ cards[moves[m].body.current_card_id] = moves[m].body.prev_column_id

\* The move in slot m has written order as the card_order_ids of column c.
HasWritten(m, c, order) ==
  \/ moves[m].writes >= 1 /\ moves[m].body.prev_column_id = c
     /\ moves[m].body.prev_card_order_ids = order
  \/ moves[m].writes >= 2 /\ moves[m].body.next_column_id = c
     /\ moves[m].body.next_card_order_ids = order

\* Two moves share a column.
Overlapping(a, b) ==
  {a.prev_column_id, a.next_column_id} \cap {b.prev_column_id, b.next_column_id} # {}

\* The column and the array of the next column write of the move in slot m.
WrittenColumn(m) ==
  IF moves[m].writes = 0 THEN moves[m].body.prev_column_id ELSE moves[m].body.next_column_id

WrittenOrder(m) ==
  IF moves[m].writes = 0 THEN moves[m].body.prev_card_order_ids
  ELSE moves[m].body.next_card_order_ids

\* C19: moves on overlapping columns whose writes interleave are
\* last-write-wins per document, with no locking: a move at a write is never
\* held back by another move, and when it writes a column that holds the
\* array of another move still in flight, the column then holds the
\* writer's array alone; a final state where a column reflects only one of
\* two moves and is no permutation of its cards is the witness.
C19_LastWriteWins ==
  [][\A m \in MoveSlots :
       /\ moves[m].pc = "source" => ENABLED UpdateSourceColumn(m)
       /\ moves[m].pc = "destination" => ENABLED UpdateDestinationColumn(m)
       /\ moves[m].pc = "card" => ENABLED UpdateCard(m)
       /\ \A o \in MoveSlots \ {m} :
            (/\ Writes(m) /\ moves[m].writes < 2
             /\ moves[o].pc # "done"
             /\ HasWritten(o, WrittenColumn(m), columns[WrittenColumn(m)]))
            => columns'[WrittenColumn(m)] = WrittenOrder(m)]_vars

\* Two moves between the same two columns, each of a card that was in the
\* source column, have both been answered 200; the source column holds the
\* array of one of them only and is no permutation of the cards whose
\* column_id it is.
C19_Witness ==
  \E a, b \in MoveSlots, c \in ColumnIds :
    /\ a # b
    /\ moves[a].pc = "done" /\ moves[a].writes = 3 /\ MovesAcross(moves[a])
    /\ moves[b].pc = "done" /\ moves[b].writes = 3 /\ MovesAcross(moves[b])
    /\ Overlapping(moves[a].body, moves[b].body)
    /\ moves[a].body.prev_column_id = c /\ moves[b].body.prev_column_id = c
    /\ columns[c] = moves[b].body.prev_card_order_ids
    /\ columns[c] # moves[a].body.prev_card_order_ids
    /\ ~IsPermutationOf(columns[c], {k \in CardIds : cards[k] = c})

\* The request reorders its card inside the column the card was in when the
\* request was accepted.
MovesInside(req) ==
  /\ req.body.prev_column_id = req.body.next_column_id
  /\ req.from = req.body.prev_column_id

\* The board after the three writes of a request made with nothing in
\* between.
Applied(body, cols, cs) ==
  [columns |-> updateColumn(updateColumn(cols, body.prev_column_id, body.prev_card_order_ids),
                            body.next_column_id, body.next_card_order_ids),
   cards |-> updateCard(cs, body.current_card_id, body.next_column_id)]

\* C20: when prev_column_id = next_column_id, the move, once completed, has
\* changed only the card_order_ids of that column, which equal
\* next_card_order_ids; the column_id of the card is the same as before, and
\* the same request applied a second time leaves the board unchanged.
C20_SameColumnMove ==
  [][\A m \in MoveSlots :
       (Writes(m) /\ MovesInside(moves[m]))
       => LET body == moves[m].body
          IN  /\ cards' = cards
              /\ \A c \in ColumnIds \ {body.next_column_id} : columns'[c] = columns[c]
              /\ moves'[m].pc = "done"
                 => /\ columns'[body.next_column_id] = body.next_card_order_ids
                    /\ Applied(body, columns', cards') = [columns |-> columns', cards |-> cards']]_vars

\* The request names two distinct columns.
DistinctColumns(req) == req.body.prev_column_id # req.body.next_column_id

\* C21: a move with distinct source and destination columns, once completed,
\* leaves the card_order_ids of the source column equal to
\* prev_card_order_ids, those of the destination column equal to
\* next_card_order_ids and the column_id of the card equal to next_column_id;
\* its writes change no other column and no other card.
C21_CompletedMove ==
  [][\A m \in MoveSlots :
       (Writes(m) /\ DistinctColumns(moves[m]))
       => LET body == moves[m].body
          IN  /\ \A c \in ColumnIds \ {body.prev_column_id, body.next_column_id} :
                   columns'[c] = columns[c]
              /\ \A k \in CardIds \ {body.current_card_id} : cards'[k] = cards[k]
              /\ moves'[m].pc = "done"
                 => /\ columns'[body.prev_column_id] = body.prev_card_order_ids
                    /\ columns'[body.next_column_id] = body.next_card_order_ids
                    /\ cards'[body.current_card_id] = body.next_column_id]_vars

(***************************************************************************)
(* Properties of the rotation of a refresh token.                          *)
(***************************************************************************)
\* C22: a successful refresh removes the record of the presented refresh
\* token from the store and inserts one record, of the same user, that holds
\* the refresh token it returns; one record out and one record in, the
\* number of the user's stored refresh tokens is the same before and after.
C22_RotationKeepsCount ==
  [][\A s \in Slots :
       /\ Stepped(s, "refresh-token", "controller")
          => /\ requests[s].refresh_token \in refreshTokens
             /\ refreshTokens' = refreshTokens \ {requests[s].refresh_token}
       /\ Stepped(s, "refresh-token", "insert")
          => LET new == requests[s].new_tokens.refresh_token
             IN  /\ new.user_id = requests[s].refresh_token.user_id
                 /\ requests'[s].result.refresh_token = new
                 /\ new \in refreshTokens'
                 /\ refreshTokens' \ {new} = refreshTokens \ {new}]_vars

\* A rotation that presented the token was interrupted between its delete
\* and its insert.
Interrupted(token) ==
  \E t \in Slots :
    /\ requests[t].op = "refresh-token" /\ requests[t].pc = "interrupted"
    /\ requests[t].refresh_token = token

InterruptedFor(user_id) ==
  \E t \in Slots :
    /\ requests[t].op = "refresh-token" /\ requests[t].pc = "interrupted"
    /\ requests[t].refresh_token.user_id = user_id

C24_RefreshTokenValidator ==
  [][\A s \in Slots :
       Stepped(s, "refresh-token", "validator")
       => LET value == requests[s].refresh_token
              verified == verifyToken(value, jwtSecretRefreshToken, now)
              stored == value \in refreshTokens
              accepted == value # NoToken /\ verified.ok /\ stored
          IN  /\ refreshTokens' = refreshTokens
              /\ (requests'[s].pc = "controller") <=> accepted
              /\ accepted => requests'[s].decoded_refresh_token = TokenPayload(value)
              /\ ~accepted =>
                   /\ requests'[s].pc = "done"
                   /\ requests'[s].status = UNAUTHORIZED
                   /\ requests'[s].message =
                        (IF value = NoToken THEN REFRESH_TOKEN_IS_REQUIRED
                         ELSE IF ~verified.ok THEN capitalize(verified.error)
                         ELSE USED_REFRESH_TOKEN_OR_NOT_EXIST)
                   /\ requests'[s].decoded_refresh_token = NoPayload
                   /\ requests'[s].result = NoTokens]_vars

\* One request was rejected with the JWT error of a token that is not in the
\* store either, another with USED_REFRESH_TOKEN_OR_NOT_EXIST for a token
\* that verifies; neither has claims attached.
C24_Witness ==
  \E s, t \in Slots :
    /\ requests[s].op = "refresh-token" /\ requests[t].op = "refresh-token"
    /\ Rejected(requests[s], UNAUTHORIZED, capitalize("invalid signature"))
    /\ requests[s].refresh_token \notin refreshTokens
    /\ Rejected(requests[t], UNAUTHORIZED, USED_REFRESH_TOKEN_OR_NOT_EXIST)
    /\ verifyToken(requests[t].refresh_token, jwtSecretRefreshToken, now).ok
    /\ requests[s].decoded_refresh_token = NoPayload
    /\ requests[t].decoded_refresh_token = NoPayload

(***************************************************************************)
(* Properties of the validate wrapper.                                     *)
(***************************************************************************)
\* The positions of the fields that failed, and of those whose error is an
\* ErrorWithStatus with a status other than 422.
FailedFields(fields) == {i \in 1..Len(fields) : fields[i].msg # ""}

StatusFields(fields) ==
  {i \in FailedFields(fields) : fields[i].status \notin {0, UNPROCESSABLE_ENTITY}}

\* C25: validate calls next() without an error exactly when no field failed;
\* when the error of some field is an ErrorWithStatus with a status other
\* than 422, that error alone is forwarded, the first such field in
\* iteration order, and nothing is aggregated; otherwise the errors of all
\* failed fields are forwarded as one 422 EntityError keyed by field.
C25_Validate ==
  LET fields == validation.fields
      outcome == validation.outcome
      failed == FailedFields(fields)
      special == StatusFields(fields)
  IN  /\ outcome.next <=> failed = {}
      /\ outcome.next => err = NoError
      /\ special # {} =>
           LET i == CHOOSE j \in special : \A k \in special : j <= k
           IN  /\ outcome = [next |-> FALSE, status |-> fields[i].status,
                             message |-> fields[i].msg, errors |-> <<>>]
               /\ err = ErrorWithStatus(fields[i].msg, fields[i].status)
      /\ (failed # {} /\ special = {}) =>
           /\ ~outcome.next
           /\ outcome.status = UNPROCESSABLE_ENTITY /\ outcome.message = VALIDATION_ERROR
           /\ {outcome.errors[j].field : j \in 1..Len(outcome.errors)} = {fields[i].field : i \in failed}
           /\ Len(outcome.errors) = Cardinality(failed)
           /\ \A i \in failed : ErrorOf(outcome.errors, fields[i].field) = fields[i].msg
           /\ err = EntityError(outcome.errors)

\* Three fields failed: a plain message, then a 404, then a 401; the 404
\* alone was forwarded and answered.
C25_Witness ==
  /\ Len(validation.fields) = 3
  /\ validation.fields[1].msg # "" /\ validation.fields[1].status = 0
  /\ validation.fields[2].status = NOT_FOUND
  /\ validation.fields[3].status = UNAUTHORIZED
  /\ validation.outcome.status = NOT_FOUND /\ validation.outcome.errors = <<>>
  /\ res.status = NOT_FOUND

(***************************************************************************)
(* Properties of the verify status.                                        *)
(***************************************************************************)
\* C26: under every interleaving of verify-email and resend-verify-email
\* requests, a user whose verify status is Verified has an empty
\* email_verify_token.
C26_VerifiedHasNoToken ==
  \A u \in users : u.verify = Verified => u.email_verify_token = NoToken

\* A user who is Verified stays Verified.
VerifiedStaysVerified ==
  [][\A u \in users : u.verify = Verified
       => \E v \in users' : v.id = u.id /\ v.verify = Verified]_vars

(***************************************************************************)
(* Properties of the users collection.                                     *)
(***************************************************************************)
\* C27: at most one user exists per email address, also when two register
\* requests with the same new address run concurrently.
C27_OneUserPerEmail ==
  \A u, v \in users : u.email = v.email => u = v

(***************************************************************************)
(* Properties of accessTokenValidator.                                     *)
(***************************************************************************)
\* C28: whether accessTokenValidator accepts an access token depends on the
\* token alone, its signature and its expiry, and never on the refresh token
\* store: the request goes on exactly when the token verifies under the
\* access secret at the time of the check; an unexpired access token of a
\* login is accepted after a logout has removed the refresh token issued
\* with it (the witness).
C28_AccessTokenAloneDecides ==
  [][\A s \in Slots :
       Stepped(s, "resend-verify-email", "validator")
       => LET token == requests[s].access_token
              verified == verifyToken(token, jwtSecretAccessToken, now)
          IN  /\ (requests'[s].pc = "controller") <=> verified.ok
              /\ verified.ok => requests'[s].decoded_authorization = TokenPayload(token)
              /\ ~verified.ok => requests'[s].pc = "done" /\ requests'[s].status = UNAUTHORIZED
              /\ refreshTokens' = refreshTokens]_vars

\* A request whose access token came from a login passed accessTokenValidator
\* after a logout had removed the refresh token of that login; the store is
\* empty.
C28_Witness ==
  \E s \in Slots :
    /\ requests[s].op = "resend-verify-email"
    /\ requests[s].afterLogout
    /\ requests[s].decoded_authorization = TokenPayload(requests[s].access_token)
    /\ requests[s].access_token.token_type = AccessToken
    /\ requests[s].status \in {0, OK}
    /\ refreshTokens = {}

\* C29: the pair a refresh issues carries the user_id and the verify status
\* decoded from the presented refresh token, not the status the user has in
\* the database: after verifyEmail has made the user Verified, a refresh with
\* a refresh token issued while Unverified returns tokens whose verify claim
\* is Unverified.
C29_RefreshKeepsClaims ==
  [][\A s \in Slots :
       /\ Stepped(s, "refresh-token", "controller")
          => LET new == requests'[s].new_tokens
                 presented == requests[s].refresh_token
             IN  /\ new.access_token.user_id = presented.user_id
                 /\ new.refresh_token.user_id = presented.user_id
                 /\ new.access_token.verify = presented.verify
                 /\ new.refresh_token.verify = presented.verify
                 /\ new.access_token.token_type = AccessToken
                 /\ new.refresh_token.token_type = RefreshToken
       /\ Stepped(s, "refresh-token", "insert")
          => /\ Rejected(requests'[s], OK, REFRESH_TOKEN_SUCCESS)
             /\ requests'[s].result = requests[s].new_tokens]_vars

\* A refresh validated when the user was already Verified has returned a
\* pair whose verify claim is Unverified, as in the token it presented.
C29_Witness ==
  \E s \in Slots :
    /\ requests[s].op = "refresh-token"
    /\ Rejected(requests[s], OK, REFRESH_TOKEN_SUCCESS)
    /\ requests[s].storedVerify = Verified
    /\ requests[s].refresh_token.verify = Unverified
    /\ requests[s].result.access_token.verify = Unverified
    /\ requests[s].result.refresh_token.verify = Unverified
    /\ findUserById(requests[s].refresh_token.user_id).verify = Verified

\* The request carries an access_token cookie and an Authorization header.
CarriesBoth(req) == req.access_token # NoToken /\ req.authorization # NoToken

\* C30: when a request carries both an access_token cookie and an
\* Authorization: Bearer header, only the cookie token is verified: a cookie
\* token that is invalid or expired is rejected with 401 even when the header
\* token is valid, and the claims attached are those of the cookie token.
C30_CookieOnly ==
  \A m \in MoveSlots :
    LET req == moves[m]
        verified == verifyToken(req.access_token, jwtSecretAccessToken, now)
    IN  (Authenticated(req) /\ CarriesBoth(req)) =>
          /\ ~verified.ok =>
               /\ Rejected(req, UNAUTHORIZED, capitalize(verified.error))
               /\ req.passed = <<>>
               /\ req.decoded_authorization = NoPayload
               /\ req.writes = 0
          /\ verified.ok =>
               /\ req.passed # <<>>
               /\ req.decoded_authorization = TokenPayload(req.access_token)

\* Both requests carry the valid header token of a verified user: the one
\* with an expired cookie token was rejected with 401 Jwt expired, the one
\* with the cookie token of an unverified user was stopped by
\* verifiedUserValidator with the claims of the cookie attached.
C30_Witness ==
  \E m, k \in MoveSlots :
    /\ CarriesBoth(moves[m]) /\ CarriesBoth(moves[k])
    /\ verifyToken(moves[m].authorization, jwtSecretAccessToken, now).ok
    /\ verifyToken(moves[k].authorization, jwtSecretAccessToken, now).ok
    /\ Rejected(moves[m], UNAUTHORIZED, capitalize("jwt expired"))
    /\ Rejected(moves[k], FORBIDDEN, USER_NOT_VERIFIED)
    /\ moves[k].authorization.verify = Verified
    /\ moves[k].decoded_authorization.verify = Unverified

====
